---- MODULE Spec2Model ----
(***************************************************************************)
(* A model of the invoice field-extraction pipeline of OcrService          *)
(* (src/src/ocr/ocr.service.ts).                                           *)
(*                                                                         *)
(* Text is a sequence of one-character strings.  The regular expressions   *)
(* of the source are kept as data (small syntax trees built with the       *)
(* constructors below) and run by one backtracking matcher, Threads, that  *)
(* returns the matcher's alternatives in the priority order of the         *)
(* ECMAScript engine (greedy before shorter, lazy before longer, left      *)
(* alternative before right).  JavaScript numbers are modelled as exact    *)
(* decimals [m, e] (m / 10^e): every number the pipeline computes is a     *)
(* short decimal, and binary rounding error of IEEE doubles is not         *)
(* modelled.                                                               *)
(***************************************************************************)
EXTENDS Integers, Sequences, FiniteSets, TLC

VARIABLES
  noiseIn,     \* fixOcrNoise: the text handed to the normalizer
  noiseOut,    \* fixOcrNoise: the text after the passes applied so far
  noisePrev,   \* fixOcrNoise: the text before the latest pass
  passes,      \* fixOcrNoise: the number of passes applied to noiseIn
  valArgs,     \* validateArticle: the arguments of the call
  valResult,   \* validateArticle: what the call returned (NULL before it)
  amtSrc,      \* parseMontant: [d |-> cents] when raw is a formatted amount
  amtRaw,      \* parseMontant: the raw string
  amtOut,      \* parseMontant: what the call returned (NULL before it)
  tableRows,   \* extractArticles: the rows of the table, below its header line
  articles,    \* extractArticles: what the call returned (NULL before it)
  pc,          \* processInvoice: where the request is
  docParts,    \* processInvoice: the sections the recognized text is made of
  docText,     \* processInvoice: result.data.text
  confidence,  \* processInvoice: result.data.confidence
  warnings,    \* processInvoice: the warnings collected before the extraction
  outcome,     \* processInvoice: the InvoiceResult returned, or the exception thrown
  rowCols,     \* parseArticleLine: the columns of the row (NULL before it is read)
  rowItem,     \* parseArticleLine: what the call returned (NULL before it)
  metaLines,   \* extractMetadata: the lines of the text
  metaOut,     \* extractMetadata: what the call returned (NULL before it)
  runs,        \* concurrent requests: the state of each processInvoice call
  mergeIn,     \* mergeMultilineArticles: the parsed items it is given
  mergeOut,    \* mergeMultilineArticles: what the call returned (NULL before it)
  otpStorage,  \* AuthService.otpStorage: identifier -> stored code
  otpPending,  \* AuthService: the send calls waiting for the message service
  otpSent,     \* history: per identifier, the code last stored and its use
  otpLast,     \* history: the latest validateOtp call and what it did
  users,       \* AuthService.users
  resetTokens, \* AuthService.resetTokens
  clock,       \* the time, in hours
  tokensIssued,\* history: the reset tokens issued so far, in order
  hashing,     \* AuthService: the resetPassword calls waiting for bcrypt.hash
  resetLast    \* history: the latest resetPassword call and what it did

noiseVars == <<noiseIn, noiseOut, noisePrev, passes>>
valVars   == <<valArgs, valResult>>
amtVars   == <<amtSrc, amtRaw, amtOut>>
artVars   == <<tableRows, articles>>
docVars   == <<pc, docParts, docText, confidence, warnings, outcome>>
rowVars   == <<rowCols, rowItem>>
metaVars  == <<metaLines, metaOut>>
runVars   == <<runs>>
mergeVars == <<mergeIn, mergeOut>>
otpVars   == <<otpStorage, otpPending, otpSent, otpLast>>
resetVars == <<users, resetTokens, clock, tokensIssued, hashing, resetLast>>
vars == <<noiseVars, valVars, amtVars, artVars, docVars, rowVars, metaVars,
          runVars,
                 mergeVars, otpVars, resetVars>>

\* null; a nullable value is a record, so that it compares with NULL
NULL == [null |-> TRUE]

(***************************************************************************)
(* Characters and character classes (\d, \w, \s of ECMAScript, non-unicode *)
(* mode).                                                                  *)
(***************************************************************************)
Digit == {"0", "1", "2", "3", "4", "5", "6", "7", "8", "9"}

LowerAZ == {"a", "b", "c", "d", "e", "f", "g", "h", "i", "j", "k", "l", "m",
            "n", "o", "p", "q", "r", "s", "t", "u", "v", "w", "x", "y", "z"}

UpperAZ == {"A", "B", "C", "D", "E", "F", "G", "H", "I", "J", "K", "L", "M",
            "N", "O", "P", "Q", "R", "S", "T", "U", "V", "W", "X", "Y", "Z"}

WordCh == LowerAZ \cup UpperAZ \cup Digit \cup {"_"}

SpaceCh == {" ", "\t", "\n", "\r", "\f"}

\* A character outside Latin-1 is written by its name: "<euro>", "<oe>",
\* "<OE>", "<phone>".

\* the ranges À-Ü and à-ü of Latin-1
UpperLatin1 == {"À", "Á", "Â", "Ã", "Ä", "Å", "Æ", "Ç", "È", "É", "Ê", "Ë",
                "Ì", "Í", "Î", "Ï", "Ð", "Ñ", "Ò", "Ó", "Ô", "Õ", "Ö", "×",
                "Ø", "Ù", "Ú", "Û", "Ü"}
LowerLatin1 == {"à", "á", "â", "ã", "ä", "å", "æ", "ç", "è", "é", "ê", "ë",
                "ì", "í", "î", "ï", "ð", "ñ", "ò", "ó", "ô", "õ", "ö", "÷",
                "ø", "ù", "ú", "û", "ü"}

\* Pairs <<lower, upper>> of the letters the model's texts and patterns use.
CasePairs ==
  { <<"a", "A">>, <<"b", "B">>, <<"c", "C">>, <<"d", "D">>, <<"e", "E">>,
    <<"f", "F">>, <<"g", "G">>, <<"h", "H">>, <<"i", "I">>, <<"j", "J">>,
    <<"k", "K">>, <<"l", "L">>, <<"m", "M">>, <<"n", "N">>, <<"o", "O">>,
    <<"p", "P">>, <<"q", "Q">>, <<"r", "R">>, <<"s", "S">>, <<"t", "T">>,
    <<"u", "U">>, <<"v", "V">>, <<"w", "W">>, <<"x", "X">>, <<"y", "Y">>,
    <<"z", "Z">>, <<"é", "É">>, <<"è", "È">>, <<"ê", "Ê">>, <<"ë", "Ë">>,
    <<"à", "À">>, <<"â", "Â">>, <<"ù", "Ù">>, <<"û", "Û">>, <<"ü", "Ü">>,
    <<"î", "Î">>, <<"ï", "Ï">>, <<"ô", "Ô">>, <<"ç", "Ç">>, <<"<oe>", "<OE>">>,
    <<"æ", "Æ">> }

\* The closure of a character set under case, as the i flag does.
CI(cs) == cs \cup { p[2] : p \in { q \in CasePairs : q[1] \in cs } }
             \cup { p[1] : p \in { q \in CasePairs : q[2] \in cs } }

(***************************************************************************)
(* Regular expressions as data.                                            *)
(***************************************************************************)
Set(cs)    == [t |-> "set", cs |-> cs, neg |-> FALSE]
NotSet(cs) == [t |-> "set", cs |-> cs, neg |-> TRUE]
AnyCh      == NotSet({})                      \* [\s\S]
Cat(rs)    == [t |-> "cat", rs |-> rs]
Alt(rs)    == [t |-> "alt", rs |-> rs]
\* r{lo,hi}; hi = -1 is "no upper limit"
Rep(r, lo, hi)     == [t |-> "rep", r |-> r, lo |-> lo, hi |-> hi, lazy |-> FALSE]
RepLazy(r, lo, hi) == [t |-> "rep", r |-> r, lo |-> lo, hi |-> hi, lazy |-> TRUE]
Star(r)     == Rep(r, 0, -1)
Plus(r)     == Rep(r, 1, -1)
Opt(r)      == Rep(r, 0, 1)
StarLazy(r) == RepLazy(r, 0, -1)
PlusLazy(r) == RepLazy(r, 1, -1)
Ahead(r)    == [t |-> "ahead", r |-> r]       \* (?=r)
NotAhead(r) == [t |-> "nahead", r |-> r]      \* (?!r)
Behind(cs)  == [t |-> "behind", cs |-> cs]    \* (?<=[cs])
WordB       == [t |-> "wb"]                   \* \b
Bol         == [t |-> "bol"]                  \* ^ (no m flag)
Eol         == [t |-> "eol"]                  \* $ (no m flag)
Grp(k, r)   == [t |-> "grp", k |-> k, r |-> r]
Lit(cs)     == Cat([i \in 1..Len(cs) |-> Set({cs[i]})])
LitI(cs)    == Cat([i \in 1..Len(cs) |-> Set(CI({cs[i]}))])

NoCaps == << <<0, 0>>, <<0, 0>> >>
NoMatch == [start |-> 0, end |-> 0, caps |-> NoCaps]

IsWordAt(s, i) == i >= 1 /\ i <= Len(s) /\ s[i] \in WordCh

\* the length of the run of characters of the class c in s from index i,
\* max at most (max < 0: no limit)
RECURSIVE RunLenFrom(_, _, _, _)
RunLenFrom(c, s, i, max) ==
  IF max # 0 /\ i <= Len(s) /\ ((s[i] \in c.cs) # c.neg)
  THEN 1 + RunLenFrom(c, s, i + 1, max - 1) ELSE 0

RunLen(c, s, i, max) ==
  IF c.neg /\ c.cs = {}
  THEN (IF max >= 0 /\ max < Len(s) + 1 - i THEN max ELSE Len(s) + 1 - i)
  ELSE RunLenFrom(c, s, i, max)

RECURSIVE Threads(_, _, _), StepAll(_, _, _), CatFrom(_, _, _, _),
          AltFrom(_, _, _, _), RepFrom(_, _, _, _, _), RepAll(_, _, _, _, _)

\* the threads of a group's body, with the group's capture from index from
Captures(k, from, inner) ==
  [i \in 1..Len(inner) |-> [inner[i] EXCEPT !.caps[k] = <<from, inner[i].pos>>]]

\* The alternatives of matching r in s from thread th, best first.
Threads(r, s, th) ==
  CASE r.t = "set" ->
         IF th.pos <= Len(s) /\ ((s[th.pos] \in r.cs) # r.neg)
         THEN << [th EXCEPT !.pos = @ + 1] >> ELSE << >>
    [] r.t = "cat" -> CatFrom(r.rs, 1, s, << th >>)
    [] r.t = "alt" -> AltFrom(r.rs, 1, s, th)
    [] r.t = "rep" -> RepFrom(r, r.lo, r.hi, s, th)
    [] r.t = "ahead" ->
         IF Threads(r.r, s, th) # << >> THEN << th >> ELSE << >>
    [] r.t = "nahead" ->
         IF Threads(r.r, s, th) = << >> THEN << th >> ELSE << >>
    [] r.t = "behind" ->
         IF th.pos > 1 /\ s[th.pos - 1] \in r.cs THEN << th >> ELSE << >>
    [] r.t = "wb" ->
         IF IsWordAt(s, th.pos - 1) # IsWordAt(s, th.pos)
         THEN << th >> ELSE << >>
    [] r.t = "bol" -> IF th.pos = 1 THEN << th >> ELSE << >>
    [] r.t = "eol" -> IF th.pos = Len(s) + 1 THEN << th >> ELSE << >>
    [] r.t = "grp" -> Captures(r.k, th.pos, Threads(r.r, s, th))

\* r continued from each thread of ths, in order (the list is halved rather
\* than walked, to keep the evaluation shallow)
StepAll(r, s, ths) ==
  IF ths = << >> THEN << >>
  ELSE IF Len(ths) = 1 THEN Threads(r, s, ths[1])
  ELSE LET half == Len(ths) \div 2
       IN StepAll(r, s, SubSeq(ths, 1, half)) \o
          StepAll(r, s, SubSeq(ths, half + 1, Len(ths)))

CatFrom(rs, k, s, ths) ==
  IF k > Len(rs) \/ ths = << >> THEN ths
  ELSE CatFrom(rs, k + 1, s, StepAll(rs[k], s, ths))

AltFrom(rs, k, s, th) ==
  IF k > Len(rs) THEN << >>
  ELSE Threads(rs[k], s, th) \o AltFrom(rs, k + 1, s, th)

\* A repeated character class: the run of its characters from th, at most
\* hi long, can be left after lo, lo + 1, ... characters (lazy) or after
\* all of them, all but one, ... (greedy).
RunThreads(lazy, lo, run, th) ==
  IF run < lo THEN << >>
  ELSE [i \in 1..(run - lo + 1) |->
          [th EXCEPT !.pos = @ + (IF lazy THEN lo + i - 1 ELSE run - i + 1)]]

RepSet(r, lo, hi, s, th) ==
  RunThreads(r.lazy, lo, RunLen(r.r, s, th.pos, hi), th)

\* the ways to stop here and the ways to go on, in the order of preference
InOrder(lazy, stop, more) == IF lazy THEN stop \o more ELSE more \o stop

RepFrom(r, lo, hi, s, th) ==
  IF r.r.t = "set" THEN RepSet(r, lo, hi, s, th)
  ELSE InOrder(r.lazy,
               IF lo = 0 THEN << th >> ELSE << >>,
               RepAll(r, IF lo > 0 THEN lo - 1 ELSE 0,
                      IF hi > 0 THEN hi - 1 ELSE hi, s,
                      IF hi = 0 THEN << >>
                      ELSE SelectSeq(Threads(r.r, s, th),
                                     LAMBDA t : t.pos > th.pos)))

RepAll(r, lo, hi, s, ths) ==
  IF ths = << >> THEN << >>
  ELSE IF Len(ths) = 1 THEN RepFrom(r, lo, hi, s, ths[1])
  ELSE LET half == Len(ths) \div 2
       IN RepAll(r, lo, hi, s, SubSeq(ths, 1, half)) \o
          RepAll(r, lo, hi, s, SubSeq(ths, half + 1, Len(ths)))

\* the match that starts at index i, NoMatch if none
BestOf(i, ms) ==
  IF ms # << >> THEN [start |-> i, end |-> ms[1].pos, caps |-> ms[1].caps]
  ELSE NoMatch

ExecAt(rx, s, i) == BestOf(i, Threads(rx, s, [pos |-> i, caps |-> NoCaps]))

\* the match with the least start in lo..hi (the range is halved rather than
\* walked, to keep the evaluation shallow)
RECURSIVE ExecBetween(_, _, _, _)
ExecAfter(left, rx, s, lo, hi) ==
  IF left # NoMatch THEN left ELSE ExecBetween(rx, s, lo, hi)

ExecBetween(rx, s, lo, hi) ==
  IF lo > hi THEN NoMatch
  ELSE IF lo = hi THEN ExecAt(rx, s, lo)
  ELSE ExecAfter(ExecBetween(rx, s, lo, (lo + hi) \div 2), rx, s,
                 (lo + hi) \div 2 + 1, hi)

\* RegExp.prototype.exec from index i (1-based): the leftmost match, NoMatch if none.
ExecFrom(rx, s, i) == ExecBetween(rx, s, i, Len(s) + 1)

\* String.prototype.match without the g flag.
Match(rx, s) == ExecFrom(rx, s, 1)

Matched(m) == m.start # 0
MatchText(s, m) == SubSeq(s, m.start, m.end - 1)
HasGroup(m, k) == m.caps[k][1] # 0
Group(s, m, k) == SubSeq(s, m.caps[k][1], m.caps[k][2] - 1)

\* A replacement string: one-character strings, and "$1" for the first group.
RECURSIVE Expand(_, _, _)
Expand(tpl, s, m) ==
  IF tpl = << >> THEN << >>
  ELSE (IF Head(tpl) = "$1"
        THEN (IF HasGroup(m, 1) THEN Group(s, m, 1) ELSE << >>)
        ELSE << Head(tpl) >>) \o Expand(Tail(tpl), s, m)

\* String.prototype.replace with a g-flagged pattern, from index i on.
RECURSIVE ReplaceFrom(_, _, _, _)
ReplaceAfter(rx, s, i, tpl, m) ==
  IF ~Matched(m) THEN SubSeq(s, i, Len(s))
  ELSE SubSeq(s, i, m.start - 1) \o Expand(tpl, s, m) \o
       (IF m.end > m.start THEN ReplaceFrom(rx, s, m.end, tpl)
        ELSE SubSeq(s, m.start, m.start) \o
             ReplaceFrom(rx, s, m.start + 1, tpl))

ReplaceFrom(rx, s, i, tpl) ==
  IF i > Len(s) + 1 THEN << >>
  ELSE ReplaceAfter(rx, s, i, tpl, ExecFrom(rx, s, i))

ReplaceAll(rx, s, tpl) == ReplaceFrom(rx, s, 1, tpl)

(***************************************************************************)
(* Numbers.  A JavaScript number is NaN or an exact decimal [m, e], the    *)
(* value m / 10^e, kept normalized (m has no trailing zero unless e = 0).  *)
(***************************************************************************)
NaN == [nan |-> TRUE]

RECURSIVE Pow10(_)
Pow10(n) == IF n = 0 THEN 1 ELSE 10 * Pow10(n - 1)

RECURSIVE Dec(_, _)
Dec(m, e) == IF e > 0 /\ m % 10 = 0 THEN Dec(m \div 10, e - 1)
             ELSE [m |-> m, e |-> e]

MaxOf(a, b) == IF a >= b THEN a ELSE b
\* the mantissa of a at e decimal places, e >= a.e
Scaled(a, e) == a.m * Pow10(e - a.e)

DecMul(a, b) == Dec(a.m * b.m, a.e + b.e)
DecAdd(a, b) == LET e == MaxOf(a.e, b.e) IN Dec(Scaled(a, e) + Scaled(b, e), e)
DecSub(a, b) == LET e == MaxOf(a.e, b.e) IN Dec(Scaled(a, e) - Scaled(b, e), e)
DecAbs(a)    == IF a.m < 0 THEN [a EXCEPT !.m = -a.m] ELSE a
DecGt(a, b)  == LET e == MaxOf(a.e, b.e) IN Scaled(a, e) > Scaled(b, e)
DecDiv100(a) == Dec(a.m, a.e + 2)
DecInt(n)    == Dec(n, 0)
Cents(c)     == Dec(c, 2)

\* Math.round: the nearest integer, a tie going up (floor(x + 0.5)).
MathRound(a) == DecInt((2 * a.m + Pow10(a.e)) \div (2 * Pow10(a.e)))

\* ToBoolean of a number or null: null, NaN and 0 are falsy.
Truthy(x) == x # NULL /\ x # NaN /\ x.m # 0

DigitVal(c) == CASE c = "0" -> 0 [] c = "1" -> 1 [] c = "2" -> 2 [] c = "3" -> 3
                 [] c = "4" -> 4 [] c = "5" -> 5 [] c = "6" -> 6 [] c = "7" -> 7
                 [] c = "8" -> 8 [] c = "9" -> 9

RECURSIVE DigitsToInt(_)
DigitsToInt(ds) ==
  IF ds = << >> THEN 0
  ELSE 10 * DigitsToInt(SubSeq(ds, 1, Len(ds) - 1)) + DigitVal(ds[Len(ds)])

\* the longest run of characters of cs in s from index i
RECURSIVE RunFrom(_, _, _)
RunFrom(s, i, cs) ==
  IF i <= Len(s) /\ s[i] \in cs THEN << s[i] >> \o RunFrom(s, i + 1, cs)
  ELSE << >>

\* parseFloat: the longest prefix that is a decimal literal (sign, digits,
\* a point, digits), NaN when there is none.  Exponents and "Infinity" are
\* not modelled: no text of the model holds the letters they need.
parseFloat(s) ==
  LET lead == Len(RunFrom(s, 1, SpaceCh))
      neg  == lead < Len(s) /\ s[lead + 1] = "-"
      p    == IF lead < Len(s) /\ s[lead + 1] \in {"+", "-"}
              THEN lead + 2 ELSE lead + 1
      ip   == RunFrom(s, p, Digit)
      q    == p + Len(ip)
      fp   == IF q <= Len(s) /\ s[q] = "." THEN RunFrom(s, q + 1, Digit)
              ELSE << >>
      mant == DigitsToInt(ip \o fp)
  IN IF ip = << >> /\ fp = << >> THEN NaN
     ELSE Dec(IF neg THEN -mant ELSE mant, Len(fp))

\* parseInt(s, 10) of a string of digits
parseInt(s) == DecInt(DigitsToInt(RunFrom(s, 1, Digit)))

\* String.prototype.trim
RECURSIVE TrimLeft(_), TrimRight(_)
TrimLeft(s)  == IF s # << >> /\ Head(s) \in SpaceCh THEN TrimLeft(Tail(s)) ELSE s
TrimRight(s) == IF s # << >> /\ s[Len(s)] \in SpaceCh
                THEN TrimRight(SubSeq(s, 1, Len(s) - 1)) ELSE s
Trim(s) == TrimRight(TrimLeft(s))

\* String.prototype.replace with a string pattern of one character:
\* the first occurrence only.
RECURSIVE ReplaceFirst(_, _, _)
ReplaceFirst(s, c, d) ==
  IF s = << >> THEN << >>
  ELSE IF Head(s) = c THEN << d >> \o Tail(s)
  ELSE << Head(s) >> \o ReplaceFirst(Tail(s), c, d)

(***************************************************************************)
(* AmountParser: parseMontant.                                             *)
(***************************************************************************)
\* parseMontant without .replace(/\s/g, ''): the thousands separator stays
parseMontant_KeepsSpaces(raw) ==
  parseFloat(ReplaceFirst(Trim(raw), ",", "."))

parseMontant(raw) ==
  parseFloat(ReplaceFirst(ReplaceAll(Set(SpaceCh), Trim(raw), << >>), ",", "."))

(***************************************************************************)
(* CrossValidator: validateArticle.  The outcome is {_validated: true} or  *)
(* {_ocr_warning: message}.  validated = FALSE stands for "_validated is  *)
(* not set" (the code never sets it to false), ocr_warning = NULL for      *)
(* "_ocr_warning is not set"; a message is a record of its parts.          *)
(***************************************************************************)
Validated == [validated |-> TRUE, ocr_warning |-> NULL]
\* Warning keeping the validated mark beside the warning
Warning_AlsoValidated(msg) == [validated |-> TRUE, ocr_warning |-> msg]

Warning(msg) == [validated |-> FALSE, ocr_warning |-> msg]

expectedTtcOf(quantite, prix_ht, tva_pct) ==
  DecDiv100(MathRound(DecMul(
    DecMul(DecMul(quantite, prix_ht), DecAdd(DecInt(1), DecDiv100(tva_pct))),
    DecInt(100))))

expectedTvaOf(quantite, prix_ht, tva_pct) ==
  DecDiv100(MathRound(DecMul(
    DecMul(DecMul(quantite, prix_ht), DecDiv100(tva_pct)), DecInt(100))))

\* validateArticle comparing a missing tax amount as 0
\* (Math.abs(expectedTva - (total_tva ?? 0)))
validateArticle_NullTaxAsZero(quantite, prix_ht, tva_pct, total_tva, total_ttc) ==
  LET expectedTtc == expectedTtcOf(quantite, prix_ht, tva_pct)
      expectedTva == expectedTvaOf(quantite, prix_ht, tva_pct)
      diffTtc == DecAbs(DecSub(expectedTtc, total_ttc))
      diffTva == DecAbs(DecSub(expectedTva,
                               IF total_tva = NULL THEN DecInt(0) ELSE total_tva))
  IN IF DecGt(diffTtc, DecInt(1)) \/ DecGt(diffTva, DecInt(1))
     THEN Warning([text |-> "Incoherence", quantite |-> quantite,
                   prix_ht |-> prix_ht, tva_pct |-> tva_pct,
                   attendu |-> expectedTtc, extrait |-> total_ttc])
     ELSE Validated

validateArticle(quantite, prix_ht, tva_pct, total_tva, total_ttc) ==
  LET expectedTtc == expectedTtcOf(quantite, prix_ht, tva_pct)
      expectedTva == expectedTvaOf(quantite, prix_ht, tva_pct)
      diffTtc == DecAbs(DecSub(expectedTtc, total_ttc))
      diffTva == IF Truthy(total_tva)
                 THEN DecAbs(DecSub(expectedTva, total_tva)) ELSE DecInt(0)
  IN IF DecGt(diffTtc, DecInt(1)) \/ DecGt(diffTva, DecInt(1))
     THEN Warning([text |-> "Incoherence", quantite |-> quantite,
                   prix_ht |-> prix_ht, tva_pct |-> tva_pct,
                   attendu |-> expectedTtc, extrait |-> total_ttc])
     ELSE Validated

(***************************************************************************)
(* NoiseNormalizer: fixOcrNoise.                                           *)
(***************************************************************************)
\* (?=\s*\d)
BeforeDigit == Ahead(Cat(<< Star(Set(SpaceCh)), Set(Digit) >>))
Isolated(c) == Cat(<< WordB, Set({c}), WordB >>)

RxDigitC   == Cat(<< Grp(1, Set(Digit)), Set({"C"}), WordB >>)
RxCDigit   == Cat(<< WordB, Set({"C"}), Grp(1, Set(Digit)) >>)
RxLoneC    == Isolated("C")
RxLoneL    == Cat(<< Isolated("l"), BeforeDigit >>)
RxLoneO    == Cat(<< Isolated("O"), BeforeDigit >>)
RxLoneE    == Isolated("ë")
RxLoneQ    == Cat(<< Isolated("q"), BeforeDigit >>)
RxLoneI    == Cat(<< Isolated("I"), BeforeDigit >>)
RxComma    == Cat(<< Behind(Digit), Star(Set(SpaceCh)), Set({","}),
                     Star(Set(SpaceCh)),
                     Ahead(Cat(<< Rep(Set(Digit), 2, 2), WordB >>)) >>)
RxBang     == Set({"!"})
RxPipe     == Rep(Set({"|"}), 1, 1)
RxFormFeed == Set({"\f"})
RxCrLf     == Cat(<< Set({"\r"}), Set({"\n"}) >>)
RxBlanks   == Rep(Set({" ", "\t"}), 3, -1)

fixOcrNoise(text) ==
  LET t1  == ReplaceAll(RxDigitC, text, << "$1", "0" >>)
      t2  == ReplaceAll(RxCDigit, t1, << "0", "$1" >>)
      t3  == ReplaceAll(RxLoneC, t2, << "0" >>)
      t4  == ReplaceAll(RxLoneL, t3, << "1" >>)
      t5  == ReplaceAll(RxLoneO, t4, << "0" >>)
      t6  == ReplaceAll(RxLoneE, t5, << "5" >>)
      t7  == ReplaceAll(RxLoneQ, t6, << "9" >>)
      t8  == ReplaceAll(RxLoneI, t7, << "1" >>)
      t9  == ReplaceAll(RxComma, t8, << "," >>)
      t10 == ReplaceAll(RxBang, t9, << "i" >>)
      t11 == ReplaceAll(RxPipe, t10, << "I" >>)
      t12 == ReplaceAll(RxFormFeed, t11, << "\n" >>)
      t13 == ReplaceAll(RxCrLf, t12, << "\n" >>)
  IN ReplaceAll(RxBlanks, t13, << " ", " " >>)

(***************************************************************************)
(* Strings: the library calls the extractors make.                         *)
(***************************************************************************)
\* a string where null is possible
Str(s) == [str |-> s]

\* Array.prototype.map
MapSeq(f(_), xs) == [i \in 1..Len(xs) |-> f(xs[i])]

\* Array.prototype.findIndex, 1-based, 0 when no element satisfies P
FindIndex(xs, P(_)) ==
  LET hits == { i \in 1..Len(xs) : P(xs[i]) }
  IN IF hits = {} THEN 0 ELSE CHOOSE i \in hits : \A j \in hits : i <= j

RECURSIVE IndexOf(_, _, _)
IndexOf(s, c, i) ==
  IF i > Len(s) THEN 0 ELSE IF s[i] = c THEN i ELSE IndexOf(s, c, i + 1)

\* String.prototype.split on a one-character separator
RECURSIVE Split(_, _)
Split(s, c) ==
  LET k == IndexOf(s, c, 1)
  IN IF k = 0 THEN << s >>
     ELSE << SubSeq(s, 1, k - 1) >> \o Split(SubSeq(s, k + 1, Len(s)), c)

\* Array.prototype.join on a one-character separator
RECURSIVE Join(_, _)
Join(xs, c) ==
  IF xs = << >> THEN << >>
  ELSE IF Len(xs) = 1 THEN xs[1]
  ELSE xs[1] \o << c >> \o Join(Tail(xs), c)

\* String.prototype.toLowerCase
ToLower(s) ==
  [i \in 1..Len(s) |->
     LET ps == { p \in CasePairs : p[2] = s[i] }
     IN IF ps = {} THEN s[i] ELSE (CHOOSE p \in ps : TRUE)[1]]

\* RegExp.prototype.test
Test(rx, s) == Matched(Match(rx, s))

\* the matches of a g-flagged pattern, as the loop
\* while ((m = rx.exec(s)) !== null) collects them
RECURSIVE MatchesFrom(_, _, _)
MatchesAfter(rx, s, m) ==
  IF ~Matched(m) THEN << >>
  ELSE << m >> \o
       MatchesFrom(rx, s, IF m.end > m.start THEN m.end ELSE m.start + 1)

MatchesFrom(rx, s, i) == MatchesAfter(rx, s, ExecFrom(rx, s, i))

\* String.prototype.replace with a pattern that has no g flag
ReplaceMatch(s, m, tpl) ==
  IF ~Matched(m) THEN s
  ELSE SubSeq(s, 1, m.start - 1) \o Expand(tpl, s, m) \o
       SubSeq(s, m.end, Len(s))

ReplaceOnce(rx, s, tpl) == ReplaceMatch(s, Match(rx, s), tpl)

\* m?.[k] ?? null: the text of group k of a match, NULL without a match
Captured(s, m, k) == IF Matched(m) THEN Str(Group(s, m, k)) ELSE NULL

(***************************************************************************)
(* LineItemParser: parseArticleLine.  An article is a record of the fields *)
(* of the Article interface; a number or a unit that was not found is      *)
(* NULL.                                                                   *)
(***************************************************************************)
\* /\d[\d\s]*[.,]\d{2}/
montantPattern ==
  Cat(<< Set(Digit), Star(Set(Digit \cup SpaceCh)), Set({",", "."}),
    Rep(Set(Digit), 2, 2) >>)

\* /€/
RxEuro ==
  Set({"<euro>"})

\* /(\d{1,3})\s*%/
RxTvaPct ==
  Cat(<< Grp(1, Rep(Set(Digit), 1, 3)), Star(Set(SpaceCh)), Set({"%"}) >>)

\* /\b(h(?:eure)?s?|m[²2]|kg|u(?:nité)?s?|pièces?|forfait|jours?|mois)\b/i
RxUnite ==
  Cat(<< WordB, Grp(1, Alt(<< Cat(<< Set(CI({"h"})), Opt(LitI(<< "e", "u",
    "r", "e" >>)), Opt(Set(CI({"s"}))) >>), Cat(<< Set(CI({"m"})),
    Set({"2", "²"}) >>), LitI(<< "k", "g" >>), Cat(<< Set(CI({"u"})),
    Opt(LitI(<< "n", "i", "t", "é" >>)), Opt(Set(CI({"s"}))) >>), Cat(<<
    LitI(<< "p", "i", "è", "c", "e" >>), Opt(Set(CI({"s"}))) >>), LitI(<<
    "f", "o", "r", "f", "a", "i", "t" >>), Cat(<< LitI(<< "j", "o", "u",
    "r" >>), Opt(Set(CI({"s"}))) >>), LitI(<< "m", "o", "i", "s" >>) >>)),
    WordB >>)

\* /^[\w\s'\-œæ\/(),.]+?\s{2,}(\d{1,5}(?:[.,]\d{1,3})?)\b/i
RxQuantite ==
  Cat(<< Bol, PlusLazy(Set(CI(WordCh \cup SpaceCh \cup {"'", "(", ")", ",",
    "-", ".", "/", "æ", "<oe>"}))), Rep(Set(SpaceCh), 2, -1), Grp(1, Cat(<<
    Rep(Set(Digit), 1, 5), Opt(Cat(<< Set({",", "."}), Rep(Set(Digit), 1,
    3) >>)) >>)), WordB >>)

\* /^([\w\s'\-œæ\/(),.éèêëàâùûüîïôçÉÈÊÀÂÙÛÜÎÏÔÇ]+?)(?=\s{2,}\d)/i
RxDescription ==
  Cat(<< Bol, Grp(1, PlusLazy(Set(CI(WordCh \cup SpaceCh \cup {"'", "(",
    ")", ",", "-", ".", "/", "À", "Â", "Ç", "È", "É", "Ê", "Î", "Ï", "Ô",
    "Ù", "Û", "Ü", "à", "â", "æ", "ç", "è", "é", "ê", "ë", "î", "ï", "ô",
    "ù", "û", "ü", "<oe>"})))), Ahead(Cat(<< Rep(Set(SpaceCh), 2, -1),
    Set(Digit) >>)) >>)

\* 'Valeurs partiellement extraites — vérification recommandée'
PartialWarning == Warning([text |-> "Valeurs partiellement extraites"])

\* the amounts of a row in reading order: every match of montantPattern,
\* parsed
montantsOf(lineNoEuro, found) ==
  [i \in 1..Len(found) |-> parseMontant(MatchText(lineNoEuro, found[i]))]

\* amountAt counting from the left: the k-th amount found
amountAt_FromLeft(montants, k) ==
  IF Len(montants) >= k THEN montants[k] ELSE NULL

\* montants.length >= k ? montants[montants.length - k] : null
amountAt(montants, k) ==
  IF Len(montants) >= k THEN montants[Len(montants) - k + 1] ELSE NULL

\* the article of a row, from what the patterns matched in it
articleOf(montants, tvaText, uniteText, qteText, descText) ==
  LET tva_pct     == IF tvaText # NULL THEN parseInt(tvaText.str) ELSE NULL
      unite       == IF uniteText # NULL THEN Str(ToLower(uniteText.str))
                     ELSE NULL
      quantite    == IF qteText # NULL
                     THEN parseFloat(ReplaceFirst(qteText.str, ",", "."))
                     ELSE NULL
      total_ttc   == amountAt(montants, 1)
      total_tva   == amountAt(montants, 2)
      total_ht    == amountAt(montants, 3)
      prix_ht     == amountAt(montants, 4)
      price       == IF prix_ht # NULL THEN prix_ht ELSE total_ht
      validation  == IF Truthy(total_ttc) /\ Truthy(tva_pct) /\ Truthy(price)
                        /\ Truthy(quantite)
                     THEN validateArticle(quantite, price, tva_pct, total_tva,
                                          total_ttc)
                     ELSE PartialWarning
  IN IF descText = NULL \/ Len(Trim(descText.str)) < 2 THEN NULL
     ELSE [description      |-> Trim(descText.str),
           quantite         |-> quantite,
           unite            |-> unite,
           prix_unitaire_ht |-> prix_ht,
           tva_pct          |-> tva_pct,
           total_ht         |-> total_ht,
           total_tva        |-> total_tva,
           total_ttc        |-> total_ttc,
           validated        |-> validation.validated,
           ocr_warning      |-> validation.ocr_warning]

parseArticleFrom(line, lineNoEuro) ==
  articleOf(montantsOf(lineNoEuro, MatchesFrom(montantPattern, lineNoEuro, 1)),
            Captured(line, Match(RxTvaPct, line), 1),
            Captured(line, Match(RxUnite, line), 1),
            Captured(line, Match(RxQuantite, line), 1),
            Captured(line, Match(RxDescription, line), 1))

parseArticleLine(line) ==
  parseArticleFrom(line, ReplaceAll(RxEuro, line, << >>))

(***************************************************************************)
(* MultilineMerger: mergeMultilineArticles.                                *)
(***************************************************************************)
RECURSIVE MergeFrom(_, _, _)
MergeFrom(parsed, k, merged) ==
  IF k > Len(parsed) THEN merged
  ELSE LET article        == parsed[k]
           isContinuation == /\ merged # << >>
                             /\ article.quantite = NULL
                             /\ article.prix_unitaire_ht = NULL
                             /\ article.total_ttc = NULL
       IN MergeFrom(parsed, k + 1,
            IF isContinuation
            THEN [merged EXCEPT ![Len(merged)].description =
                                   @ \o << " " >> \o article.description]
            ELSE Append(merged, article))

\* mergeMultilineArticles folding nothing: every parsed row is an item
mergeMultilineArticles_KeepAll(parsed) == parsed

mergeMultilineArticles(parsed) == MergeFrom(parsed, 1, << >>)

(***************************************************************************)
(* extractArticles: the table block, its rows, their items.                *)
(***************************************************************************)
\* /(?:Description|Désignation|Libellé|Prestation)[\s\S]*?(?=(?:Total\s*H\.?T\.?|Sous-total|Montant\s*HT))/i
RxTableBlock ==
  Cat(<< Alt(<< LitI(<< "D", "e", "s", "c", "r", "i", "p", "t", "i", "o",
    "n" >>), LitI(<< "D", "é", "s", "i", "g", "n", "a", "t", "i", "o", "n"
    >>), LitI(<< "L", "i", "b", "e", "l", "l", "é" >>), LitI(<< "P", "r",
    "e", "s", "t", "a", "t", "i", "o", "n" >>) >>), StarLazy(AnyCh),
    Ahead(Alt(<< Cat(<< LitI(<< "T", "o", "t", "a", "l" >>),
    Star(Set(SpaceCh)), Set(CI({"H"})), Opt(Set({"."})), Set(CI({"T"})),
    Opt(Set({"."})) >>), LitI(<< "S", "o", "u", "s", "-", "t", "o", "t",
    "a", "l" >>), Cat(<< LitI(<< "M", "o", "n", "t", "a", "n", "t" >>),
    Star(Set(SpaceCh)), LitI(<< "H", "T" >>) >>) >>)) >>)

\* /^(?:Description|Désignation|Qté?|Quantité|Prix\s*HT|TVA|Total|Montant|Unité)/i
RxHeaderLine ==
  Cat(<< Bol, Alt(<< LitI(<< "D", "e", "s", "c", "r", "i", "p", "t", "i",
    "o", "n" >>), LitI(<< "D", "é", "s", "i", "g", "n", "a", "t", "i", "o",
    "n" >>), Cat(<< LitI(<< "Q", "t" >>), Opt(Set(CI({"é"}))) >>), LitI(<<
    "Q", "u", "a", "n", "t", "i", "t", "é" >>), Cat(<< LitI(<< "P", "r",
    "i", "x" >>), Star(Set(SpaceCh)), LitI(<< "H", "T" >>) >>), LitI(<<
    "T", "V", "A" >>), LitI(<< "T", "o", "t", "a", "l" >>), LitI(<< "M",
    "o", "n", "t", "a", "n", "t" >>), LitI(<< "U", "n", "i", "t", "é" >>)
    >>) >>)

isHeaderLine(line) == Test(RxHeaderLine, line)

\* the rows extractArticles parses: the lines of the table block below the
\* header line, trimmed, without the short lines and the header lines
RowsOf(raw) ==
  SelectSeq(MapSeq(Trim, SubSeq(raw, 2, Len(raw))),
            LAMBDA l : Len(l) > 3 /\ ~isHeaderLine(l))

BlockRows(text, tableBlock) ==
  IF ~Matched(tableBlock) THEN << >>
  ELSE RowsOf(Split(MatchText(text, tableBlock), "\n"))

TableLines(text) == BlockRows(text, Match(RxTableBlock, text))

\* a list from its last element to its first
Reversed(xs) == [i \in 1..Len(xs) |-> xs[Len(xs) + 1 - i]]

\* extractArticles pushing each parsed row in front of the ones before it
extractArticles_Reversed(text) ==
  mergeMultilineArticles(
    Reversed(SelectSeq(MapSeq(parseArticleLine, TableLines(text)),
                       LAMBDA p : p # NULL)))

extractArticles(text) ==
  mergeMultilineArticles(
    SelectSeq(MapSeq(parseArticleLine, TableLines(text)), LAMBDA p : p # NULL))

(***************************************************************************)
(* PartyExtractor: extractParty.                                           *)
(***************************************************************************)
\* /Vendeur\s*[:\n]?\s*([\s\S]*?)(?=\n(?:Client|Acheteur|Destinataire)\b)/i
RxVendeurBlock ==
  Cat(<< LitI(<< "V", "e", "n", "d", "e", "u", "r" >>), Star(Set(SpaceCh)),
    Opt(Set({"\n", ":"})), Star(Set(SpaceCh)), Grp(1, StarLazy(AnyCh)),
    Ahead(Cat(<< Set({"\n"}), Alt(<< LitI(<< "C", "l", "i", "e", "n", "t"
    >>), LitI(<< "A", "c", "h", "e", "t", "e", "u", "r" >>), LitI(<< "D",
    "e", "s", "t", "i", "n", "a", "t", "a", "i", "r", "e" >>) >>), WordB
    >>)) >>)

\* /(?:Client|Acheteur|Destinataire)\s*[:\n]?\s*([\s\S]*?)(?=\n(?:Date|N°|Numéro|Référence|Facture)\b)/i
RxClientBlock ==
  Cat(<< Alt(<< LitI(<< "C", "l", "i", "e", "n", "t" >>), LitI(<< "A", "c",
    "h", "e", "t", "e", "u", "r" >>), LitI(<< "D", "e", "s", "t", "i", "n",
    "a", "t", "a", "i", "r", "e" >>) >>), Star(Set(SpaceCh)),
    Opt(Set({"\n", ":"})), Star(Set(SpaceCh)), Grp(1, StarLazy(AnyCh)),
    Ahead(Cat(<< Set({"\n"}), Alt(<< LitI(<< "D", "a", "t", "e" >>),
    LitI(<< "N", "°" >>), LitI(<< "N", "u", "m", "é", "r", "o" >>), LitI(<<
    "R", "é", "f", "é", "r", "e", "n", "c", "e" >>), LitI(<< "F", "a", "c",
    "t", "u", "r", "e" >>) >>), WordB >>)) >>)

\* /[\w.+-]+@[\w.-]+\.[a-z]{2,}/i
RxEmail ==
  Cat(<< Plus(Set(CI(WordCh \cup {"+", "-", "."}))), Set({"@"}),
    Plus(Set(CI(WordCh \cup {"-", "."}))), Set({"."}),
    Rep(Set(CI(LowerAZ)), 2, -1) >>)

\* /(?:Tél?\.?|Tel|Phone|📞)?\s*((?:\+33|0)[1-9](?:[\s.-]?\d{2}){4})/i
RxPhone ==
  Cat(<< Opt(Alt(<< Cat(<< LitI(<< "T", "é" >>), Opt(Set(CI({"l"}))),
    Opt(Set({"."})) >>), LitI(<< "T", "e", "l" >>), LitI(<< "P", "h", "o",
    "n", "e" >>), Set({"<phone>"}) >>)), Star(Set(SpaceCh)), Grp(1, Cat(<< Alt(<<
    Lit(<< "+", "3", "3" >>), Set({"0"}) >>), Set((Digit \ {"0"})),
    Rep(Cat(<< Opt(Set(SpaceCh \cup {"-", "."})), Rep(Set(Digit), 2, 2)
    >>), 4, 4) >>)) >>)

\* /(?:SIRET|SIREN)\s*[:\s]?\s*(\d[\d\s]{12,14}\d)/i
RxSiret ==
  Cat(<< LitI(<< "S", "I", "R", "E" >>), Set(CI({"N", "T"})),
    Star(Set(SpaceCh)), Opt(Set(SpaceCh \cup {":"})), Star(Set(SpaceCh)),
    Grp(1, Cat(<< Set(Digit), Rep(Set(Digit \cup SpaceCh), 12, 14),
    Set(Digit) >>)) >>)

\* /(\d{5})\s+([A-ZÀ-Ü][a-zà-ü\s-]+)/
RxPostal ==
  Cat(<< Grp(1, Rep(Set(Digit), 5, 5)), Plus(Set(SpaceCh)), Grp(2, Cat(<<
    Set(UpperAZ \cup UpperLatin1), Plus(Set(LowerAZ \cup LowerLatin1 \cup
    SpaceCh \cup {"-"})) >>)) >>)

\* /^\d+\.\s*/
RxLeadingNumber ==
  Cat(<< Bol, Plus(Set(Digit)), Set({"."}), Star(Set(SpaceCh)) >>)

\* /\d{5}/
RxFiveDigits ==
  Rep(Set(Digit), 5, 5)

\* /@/
RxAt ==
  Set({"@"})

\* /SIRET/i
RxSiretWord ==
  LitI(<< "S", "I", "R", "E", "T" >>)

\* /^\d+[,\s]|(?:rue|avenue|bd|chemin|allée|impasse)/i
RxStreet ==
  Alt(<< Cat(<< Bol, Plus(Set(Digit)), Set(SpaceCh \cup {","}) >>), Alt(<<
    LitI(<< "r", "u", "e" >>), LitI(<< "a", "v", "e", "n", "u", "e" >>),
    LitI(<< "b", "d" >>), LitI(<< "c", "h", "e", "m", "i", "n" >>), LitI(<<
    "a", "l", "l", "é", "e" >>), LitI(<< "i", "m", "p", "a", "s", "s", "e"
    >>) >>) >>)

\* /[\s.-]/
RxPhoneSeparators ==
  Set(SpaceCh \cup {"-", "."})

blockPatterns(type) ==
  IF type = "vendeur" THEN RxVendeurBlock ELSE RxClientBlock

cleanName(s) ==
  Trim(ReplaceOnce(RxLeadingNumber, ReplaceAll(RxBang, s, << "i" >>), << >>))

\* the party of a block, from its lines and what the patterns matched in it
partyOf(block, lines, emailMatch, phoneMatch, siretMatch, postalMatch, nomLine, adresseLine) ==
  IF lines = << >> THEN NULL
  ELSE [nom         |-> IF nomLine # 0 THEN Str(cleanName(lines[nomLine]))
                        ELSE NULL,
        adresse     |-> IF adresseLine # 0 THEN Str(lines[adresseLine])
                        ELSE IF Len(lines) >= 2 THEN Str(lines[2]) ELSE NULL,
        code_postal |-> IF Matched(postalMatch)
                        THEN Str(Group(block, postalMatch, 1)) ELSE NULL,
        ville       |-> IF Matched(postalMatch)
                        THEN Str(Trim(Group(block, postalMatch, 2))) ELSE NULL,
        email       |-> IF Matched(emailMatch)
                        THEN Str(MatchText(block, emailMatch)) ELSE NULL,
        telephone   |-> IF Matched(phoneMatch)
                        THEN Str(ReplaceAll(RxPhoneSeparators,
                                            Group(block, phoneMatch, 1), << >>))
                        ELSE NULL,
        siret       |-> IF Matched(siretMatch)
                        THEN Str(ReplaceAll(Set(SpaceCh),
                                            Group(block, siretMatch, 1), << >>))
                        ELSE NULL]

partyOfLines(block, lines) ==
  partyOf(block, lines, Match(RxEmail, block), Match(RxPhone, block),
          Match(RxSiret, block), Match(RxPostal, block),
          FindIndex(lines, LAMBDA l : /\ ~Test(RxFiveDigits, l)
                                     /\ ~Test(RxAt, l)
                                     /\ ~Test(RxSiretWord, l)),
          FindIndex(lines, LAMBDA l : Test(RxStreet, l)))

partyOfBlock(block) ==
  partyOfLines(block, SelectSeq(MapSeq(Trim, Split(block, "\n")),
                                LAMBDA l : l # << >>))

partyOfMatch(text, blockMatch) ==
  IF ~Matched(blockMatch) THEN NULL
  ELSE partyOfBlock(Trim(Group(text, blockMatch, 1)))

extractParty(text, type) ==
  partyOfMatch(text, Match(blockPatterns(type), text))

(***************************************************************************)
(* MetadataExtractor: extractMetadata.                                     *)
(***************************************************************************)
\* /(?:Facture\s*N[°o]?|N°\s*Facture|Invoice\s*#?)\s*[:\s]?\s*([A-Z0-9][\w/-]{2,20})/i
RxNumeroFacture ==
  Cat(<< Alt(<< Cat(<< LitI(<< "F", "a", "c", "t", "u", "r", "e" >>),
    Star(Set(SpaceCh)), Set(CI({"N"})), Opt(Set(CI({"o", "°"}))) >>),
    Cat(<< LitI(<< "N", "°" >>), Star(Set(SpaceCh)), LitI(<< "F", "a", "c",
    "t", "u", "r", "e" >>) >>), Cat(<< LitI(<< "I", "n", "v", "o", "i",
    "c", "e" >>), Star(Set(SpaceCh)), Opt(Set({"#"})) >>) >>),
    Star(Set(SpaceCh)), Opt(Set(SpaceCh \cup {":"})), Star(Set(SpaceCh)),
    Grp(1, Cat(<< Set(CI(UpperAZ \cup Digit)), Rep(Set(CI(WordCh \cup {"-",
    "/"})), 2, 20) >>)) >>)

\* /(\d{1,2}[\/.\-]\d{1,2}[\/.\-]\d{2,4})/
RxDate ==
  Grp(1, Cat(<< Rep(Set(Digit), 1, 2), Set({"-", ".", "/"}),
    Rep(Set(Digit), 1, 2), Set({"-", ".", "/"}), Rep(Set(Digit), 2, 4) >>))

\* /(?:Date\s*(?:de\s*)?(?:facturation|facture|émission))\s*[:\s]?\s*(\d{1,2}[\/.\-]\d{1,2}[\/.\-]\d{2,4})/i
RxDateFacturation ==
  Cat(<< LitI(<< "D", "a", "t", "e" >>), Star(Set(SpaceCh)), Opt(Cat(<<
    LitI(<< "d", "e" >>), Star(Set(SpaceCh)) >>)), Alt(<< LitI(<< "f", "a",
    "c", "t", "u", "r", "a", "t", "i", "o", "n" >>), LitI(<< "f", "a", "c",
    "t", "u", "r", "e" >>), LitI(<< "é", "m", "i", "s", "s", "i", "o", "n"
    >>) >>), Star(Set(SpaceCh)), Opt(Set(SpaceCh \cup {":"})),
    Star(Set(SpaceCh)), Grp(1, Cat(<< Rep(Set(Digit), 1, 2), Set({"-", ".",
    "/"}), Rep(Set(Digit), 1, 2), Set({"-", ".", "/"}), Rep(Set(Digit), 2,
    4) >>)) >>)

\* /(?:Date\s*(?:d['']\s*)?(?:échéance|paiement|règlement))\s*[:\s]?\s*(\d{1,2}[\/.\-]\d{1,2}[\/.\-]\d{2,4})/i
RxDateEcheance ==
  Cat(<< LitI(<< "D", "a", "t", "e" >>), Star(Set(SpaceCh)), Opt(Cat(<<
    LitI(<< "d", "'" >>), Star(Set(SpaceCh)) >>)), Alt(<< LitI(<< "é", "c",
    "h", "é", "a", "n", "c", "e" >>), LitI(<< "p", "a", "i", "e", "m", "e",
    "n", "t" >>), LitI(<< "r", "è", "g", "l", "e", "m", "e", "n", "t" >>)
    >>), Star(Set(SpaceCh)), Opt(Set(SpaceCh \cup {":"})),
    Star(Set(SpaceCh)), Grp(1, Cat(<< Rep(Set(Digit), 1, 2), Set({"-", ".",
    "/"}), Rep(Set(Digit), 1, 2), Set({"-", ".", "/"}), Rep(Set(Digit), 2,
    4) >>)) >>)

\* /(?:Conditions?\s*(?:de\s*)?paiement|Délai\s*(?:de\s*)?paiement)\s*[:\s]?\s*([^\n]{3,50})/i
RxConditions ==
  Cat(<< Alt(<< Cat(<< LitI(<< "C", "o", "n", "d", "i", "t", "i", "o", "n"
    >>), Opt(Set(CI({"s"}))), Star(Set(SpaceCh)), Opt(Cat(<< LitI(<< "d",
    "e" >>), Star(Set(SpaceCh)) >>)), LitI(<< "p", "a", "i", "e", "m", "e",
    "n", "t" >>) >>), Cat(<< LitI(<< "D", "é", "l", "a", "i" >>),
    Star(Set(SpaceCh)), Opt(Cat(<< LitI(<< "d", "e" >>), Star(Set(SpaceCh))
    >>)), LitI(<< "p", "a", "i", "e", "m", "e", "n", "t" >>) >>) >>),
    Star(Set(SpaceCh)), Opt(Set(SpaceCh \cup {":"})), Star(Set(SpaceCh)),
    Grp(1, Rep(NotSet({"\n"}), 3, 50)) >>)

\* /(?:Référence|Commande|Bon\s*(?:de\s*)?commande|BC)\s*[:\s]?\s*([A-Z0-9][\w/-]{2,20})/i
RxReference ==
  Cat(<< Alt(<< LitI(<< "R", "é", "f", "é", "r", "e", "n", "c", "e" >>),
    LitI(<< "C", "o", "m", "m", "a", "n", "d", "e" >>), Cat(<< LitI(<< "B",
    "o", "n" >>), Star(Set(SpaceCh)), Opt(Cat(<< LitI(<< "d", "e" >>),
    Star(Set(SpaceCh)) >>)), LitI(<< "c", "o", "m", "m", "a", "n", "d", "e"
    >>) >>), LitI(<< "B", "C" >>) >>), Star(Set(SpaceCh)), Opt(Set(SpaceCh
    \cup {":"})), Star(Set(SpaceCh)), Grp(1, Cat(<< Set(CI(UpperAZ \cup
    Digit)), Rep(Set(CI(WordCh \cup {"-", "/"})), 2, 20) >>)) >>)

\* the dates of the text in reading order: group 1 of every match of RxDate
allDatesOf(text, dates) == [i \in 1..Len(dates) |-> Group(text, dates[i], 1)]

\* metadataOf taking for the due date the first date the invoicing date left
metadataOf_DueAfterIssue(text, numMatch, allDates, dateFactMatch, dateEchMatch, condMatch, refMatch) ==
  [date_facturation    |-> IF Matched(dateFactMatch)
                           THEN Str(Group(text, dateFactMatch, 1))
                           ELSE IF Len(allDates) >= 1 THEN Str(allDates[1])
                           ELSE NULL,
   date_echeance       |-> IF Matched(dateEchMatch)
                           THEN Str(Group(text, dateEchMatch, 1))
                           ELSE IF Matched(dateFactMatch) /\ Len(allDates) >= 1
                           THEN Str(allDates[1])
                           ELSE IF Len(allDates) >= 2 THEN Str(allDates[2])
                           ELSE NULL,
   numero_facture      |-> IF Matched(numMatch)
                           THEN Str(Group(text, numMatch, 1)) ELSE NULL,
   conditions_paiement |-> IF Matched(condMatch)
                           THEN Str(Trim(Group(text, condMatch, 1))) ELSE NULL,
   reference_commande  |-> IF Matched(refMatch)
                           THEN Str(Group(text, refMatch, 1)) ELSE NULL]

metadataOf(text, numMatch, allDates, dateFactMatch, dateEchMatch, condMatch, refMatch) ==
  [date_facturation    |-> IF Matched(dateFactMatch)
                           THEN Str(Group(text, dateFactMatch, 1))
                           ELSE IF Len(allDates) >= 1 THEN Str(allDates[1])
                           ELSE NULL,
   date_echeance       |-> IF Matched(dateEchMatch)
                           THEN Str(Group(text, dateEchMatch, 1))
                           ELSE IF Len(allDates) >= 2 THEN Str(allDates[2])
                           ELSE NULL,
   numero_facture      |-> IF Matched(numMatch)
                           THEN Str(Group(text, numMatch, 1)) ELSE NULL,
   conditions_paiement |-> IF Matched(condMatch)
                           THEN Str(Trim(Group(text, condMatch, 1))) ELSE NULL,
   reference_commande  |-> IF Matched(refMatch)
                           THEN Str(Group(text, refMatch, 1)) ELSE NULL]

extractMetadata(text) ==
  metadataOf(text, Match(RxNumeroFacture, text),
             allDatesOf(text, MatchesFrom(RxDate, text, 1)),
             Match(RxDateFacturation, text), Match(RxDateEcheance, text),
             Match(RxConditions, text), Match(RxReference, text))

(***************************************************************************)
(* TotalsExtractor: extractTotaux.                                         *)
(***************************************************************************)
\* /\s*[:|]?\s*(\d[\d\s]*[.,]\d{2})\s*€?/i
RxMontantTail ==
  Cat(<< Star(Set(SpaceCh)), Opt(Set({":", "|"})), Star(Set(SpaceCh)),
    Grp(1, Cat(<< Set(Digit), Star(Set(Digit \cup SpaceCh)), Set({",",
    "."}), Rep(Set(Digit), 2, 2) >>)), Star(Set(SpaceCh)), Opt(Set({"<euro>"}))
    >>)

\* /Total\s*H\.?T\.?/i
RxLabelTotalHt ==
  Cat(<< LitI(<< "T", "o", "t", "a", "l" >>), Star(Set(SpaceCh)),
    Set(CI({"H"})), Opt(Set({"."})), Set(CI({"T"})), Opt(Set({"."})) >>)

\* /(?:Total\s*)?TVA/i
RxLabelTva ==
  Cat(<< Opt(Cat(<< LitI(<< "T", "o", "t", "a", "l" >>), Star(Set(SpaceCh))
    >>)), LitI(<< "T", "V", "A" >>) >>)

\* /(?:Total\s*)?(?:TTC|Net\s*à\s*payer|Montant\s*total)/i
RxLabelTtc ==
  Cat(<< Opt(Cat(<< LitI(<< "T", "o", "t", "a", "l" >>), Star(Set(SpaceCh))
    >>)), Alt(<< LitI(<< "T", "T", "C" >>), Cat(<< LitI(<< "N", "e", "t"
    >>), Star(Set(SpaceCh)), Set(CI({"à"})), Star(Set(SpaceCh)), LitI(<<
    "p", "a", "y", "e", "r" >>) >>), Cat(<< LitI(<< "M", "o", "n", "t",
    "a", "n", "t" >>), Star(Set(SpaceCh)), LitI(<< "t", "o", "t", "a", "l"
    >>) >>) >>) >>)

\* new RegExp(`${label}\\s*[:|]?\\s*(\\d[\\d\\s]*[.,]\\d{2})\\s*€?`, 'i')
montantRx(label) == Cat(<< label, RxMontantTail >>)

\* match ? parseMontant(match[1]) : null
montantOf(text, match) ==
  IF Matched(match) THEN parseMontant(Group(text, match, 1)) ELSE NULL

extractTotaux(text) ==
  [total_ht  |-> montantOf(text, Match(montantRx(RxLabelTotalHt), text)),
   total_tva |-> montantOf(text, Match(montantRx(RxLabelTva), text)),
   total_ttc |-> montantOf(text, Match(montantRx(RxLabelTtc), text))]

(***************************************************************************)
(* extractInfosAdditionnelles and extractInvoiceDetails.                   *)
(***************************************************************************)
\* /Informations?\s+additionnelles?\s*[:\n]\s*([\s\S]*?)(?=\n\n|\nDescription|\nMention|\nSignature|$)/i
RxInfos ==
  Cat(<< LitI(<< "I", "n", "f", "o", "r", "m", "a", "t", "i", "o", "n" >>),
    Opt(Set(CI({"s"}))), Plus(Set(SpaceCh)), LitI(<< "a", "d", "d", "i",
    "t", "i", "o", "n", "n", "e", "l", "l", "e" >>), Opt(Set(CI({"s"}))),
    Star(Set(SpaceCh)), Set({"\n", ":"}), Star(Set(SpaceCh)), Grp(1,
    StarLazy(AnyCh)), Ahead(Alt(<< Lit(<< "\n", "\n" >>), LitI(<< "\n",
    "D", "e", "s", "c", "r", "i", "p", "t", "i", "o", "n" >>), LitI(<<
    "\n", "M", "e", "n", "t", "i", "o", "n" >>), LitI(<< "\n", "S", "i",
    "g", "n", "a", "t", "u", "r", "e" >>), Eol >>)) >>)

infosOf(text, match) ==
  IF Matched(match) THEN Str(Trim(Group(text, match, 1))) ELSE NULL

extractInfosAdditionnelles(text) == infosOf(text, Match(RxInfos, text))

\* /\n{3,}/
RxBlankRuns ==
  Rep(Set({"\n"}), 3, -1)

\* invoiceOf with meta.rawText taken from the de-noised text
invoiceOf_RawTextFixed(cleanText, fixedText, metadata, conf, warns) ==
  [vendeur                     |-> extractParty(fixedText, "vendeur"),
   client                      |-> extractParty(fixedText, "client"),
   date_facturation            |-> metadata.date_facturation,
   date_echeance               |-> metadata.date_echeance,
   numero_facture              |-> metadata.numero_facture,
   conditions_paiement         |-> metadata.conditions_paiement,
   reference_commande          |-> metadata.reference_commande,
   informations_additionnelles |-> extractInfosAdditionnelles(cleanText),
   articles                    |-> extractArticles(fixedText),
   totaux                      |-> extractTotaux(fixedText),
   meta                        |-> [confidence |-> conf,
                                    rawText    |-> fixedText,
                                    warnings   |-> warns]]

\* the InvoiceResult assembled from the cleaned text, the de-noised text and
\* the metadata found in it
invoiceOf(cleanText, fixedText, metadata, conf, warns) ==
  [vendeur                     |-> extractParty(fixedText, "vendeur"),
   client                      |-> extractParty(fixedText, "client"),
   date_facturation            |-> metadata.date_facturation,
   date_echeance               |-> metadata.date_echeance,
   numero_facture              |-> metadata.numero_facture,
   conditions_paiement         |-> metadata.conditions_paiement,
   reference_commande          |-> metadata.reference_commande,
   informations_additionnelles |-> extractInfosAdditionnelles(cleanText),
   articles                    |-> extractArticles(fixedText),
   totaux                      |-> extractTotaux(fixedText),
   meta                        |-> [confidence |-> conf,
                                    rawText    |-> cleanText,
                                    warnings   |-> warns]]

invoiceOfFixed(cleanText, fixedText, conf, warns) ==
  invoiceOf(cleanText, fixedText, extractMetadata(fixedText), conf, warns)

invoiceOfClean(cleanText, conf, warns) ==
  invoiceOfFixed(cleanText, fixOcrNoise(cleanText), conf, warns)

extractInvoiceDetails(text, conf, warns) ==
  invoiceOfClean(Trim(ReplaceAll(RxBlankRuns, text, << "\n", "\n" >>)),
                 conf, warns)

(***************************************************************************)
(* Specification of the normalizer: a text of at most MaxNoiseLen          *)
(* characters of NoiseAlphabet is normalized, and normalized again.        *)
(***************************************************************************)
MaxNoiseLen == 3
MaxPasses == 2

NoiseAlphabet == {"C", "l", "I", "5", ",", "|", "\f", "\r", "\n", " ", "a"}

RECURSIVE TextsUpTo(_, _)
TextsUpTo(alphabet, n) ==
  IF n = 0 THEN { << >> }
  ELSE LET shorter == TextsUpTo(alphabet, n - 1)
       IN shorter \cup { Append(t, c) : t \in shorter, c \in alphabet }

\* The parts of the state a specification does not use stay as they are here.
NoiseIdle == noiseIn = << >> /\ noiseOut = << >> /\ noisePrev = << >> /\ passes = 0
ValIdle   == valArgs = NULL /\ valResult = NULL
AmtIdle   == amtSrc = NULL /\ amtRaw = << >> /\ amtOut = NULL
ArtIdle   == tableRows = << >> /\ articles = NULL
DocIdle   == /\ pc = "idle" /\ docParts = {} /\ docText = << >> /\ confidence = 0
             /\ warnings = << >> /\ outcome = NULL
RowIdle   == rowCols = NULL /\ rowItem = NULL
MetaIdle  == metaLines = << >> /\ metaOut = NULL
RunIdle   == runs = << >>
MergeIdle == mergeIn = << >> /\ mergeOut = NULL
OtpIdle   == /\ otpStorage = << >> /\ otpPending = {} /\ otpSent = << >>
             /\ otpLast = NULL
ResetIdle == /\ users = << >> /\ resetTokens = << >> /\ clock = 0
             /\ tokensIssued = << >> /\ hashing = << >> /\ resetLast = NULL

NoiseInit ==
  /\ noiseIn \in TextsUpTo(NoiseAlphabet, MaxNoiseLen)
  /\ noiseOut = noiseIn
  /\ noisePrev = noiseIn
  /\ passes = 0
  /\ ValIdle /\ AmtIdle /\ ArtIdle /\ DocIdle
  /\ RowIdle /\ MetaIdle /\ RunIdle
  /\ MergeIdle /\ OtpIdle /\ ResetIdle

Normalize ==
  /\ passes < MaxPasses
  /\ noisePrev' = noiseOut
  /\ noiseOut' = fixOcrNoise(noiseOut)
  /\ passes' = passes + 1
  /\ UNCHANGED <<noiseIn, valVars, amtVars, artVars, docVars, rowVars, metaVars, runVars,
                 mergeVars, otpVars, resetVars>>

NoiseNext == Normalize

SpecNoise == NoiseInit /\ [][NoiseNext]_vars

\* C1: fixOcrNoise is idempotent: normalizing an already normalized text
\* changes nothing (the second pass returns what the first pass returned).
C1_Idempotent == passes = 2 => noiseOut = noisePrev

(***************************************************************************)
(* Specification of the cross-validator: validateArticle is called once on *)
(* a quantity, a unit price, a tax rate, an optional tax amount and a      *)
(* total with tax.  The extracted amounts are the values the formula of    *)
(* the specification gives, shifted by ValDeltas cents (an OCR misread).   *)
(***************************************************************************)
MaxValQty == 3

ValQuantities == { DecInt(k) : k \in 0..MaxValQty } \cup { Dec(5, 1), Dec(15, 1) }
ValPrices     == { Cents(c) : c \in {0, 1, 99, 333, 1005, 15000} }
ValRates      == { DecInt(t) : t \in {0, 6, 20, 100} }
ValDeltas     == {-101, -100, -1, 0, 1, 100, 101}

\* x rounded to 2 decimals, a tie going up / to the even cent
RoundHalfUp2(x) ==
  LET e == MaxOf(x.e, 2)
  IN Cents((2 * Scaled(x, e) + Pow10(e - 2)) \div (2 * Pow10(e - 2)))
RoundHalfEven2(x) ==
  LET e    == MaxOf(x.e, 2)
      n    == Scaled(x, e)
      d    == Pow10(e - 2)
      down == n \div d
  IN Cents(IF 2 * (n % d) > d \/ (2 * (n % d) = d /\ down % 2 = 1)
           THEN down + 1 ELSE down)

\* quantity * unitPrice * (1 + taxRatePct/100) and quantity * unitPrice * taxRatePct/100
ExactTotal(q, p, t) == DecMul(DecMul(q, p), DecAdd(DecInt(1), DecDiv100(t)))
ExactTax(q, p, t)   == DecMul(DecMul(q, p), DecDiv100(t))

Shifted(x, deltas) ==
  { c \in { DecAdd(x, Cents(d)) : d \in deltas } : c.m >= 0 }

ValInputsFor(q, p, t) ==
  { [quantite |-> q, prix_ht |-> p, tva_pct |-> t, total_tva |-> v, total_ttc |-> c] :
      v \in {NULL, DecInt(0)} \cup Shifted(RoundHalfUp2(ExactTax(q, p, t)), ValDeltas),
      c \in Shifted(RoundHalfUp2(ExactTotal(q, p, t)), ValDeltas) }

ValInputs ==
  UNION { ValInputsFor(q, p, t) : q \in ValQuantities, p \in ValPrices, t \in ValRates }

ValInit ==
  /\ valArgs \in ValInputs
  /\ valResult = NULL
  /\ NoiseIdle /\ AmtIdle /\ ArtIdle /\ DocIdle
  /\ RowIdle /\ MetaIdle /\ RunIdle
  /\ MergeIdle /\ OtpIdle /\ ResetIdle

Validate ==
  /\ valResult = NULL
  /\ valResult' = validateArticle(valArgs.quantite, valArgs.prix_ht, valArgs.tva_pct,
                                  valArgs.total_tva, valArgs.total_ttc)
  /\ UNCHANGED <<valArgs, noiseVars, amtVars, artVars, docVars, rowVars, metaVars, runVars,
                 mergeVars, otpVars, resetVars>>

ValNext == Validate

SpecValidate == ValInit /\ [][ValNext]_vars

WithinOne(a, b) == ~DecGt(DecAbs(DecSub(a, b)), DecInt(1))

SpecTotals(a) ==
  { RoundHalfUp2(ExactTotal(a.quantite, a.prix_ht, a.tva_pct)),
    RoundHalfEven2(ExactTotal(a.quantite, a.prix_ht, a.tva_pct)) }

\* C2: cross-validation soundness: when no tax amount is supplied and the
\* total with tax is round(quantity*unitPrice*(1+taxRatePct/100), 2) (a tie
\* rounded either way), validateArticle returns Validated, never a warning.
C2_Soundness ==
  (valResult # NULL /\ valArgs.total_tva = NULL /\ valArgs.total_ttc \in SpecTotals(valArgs))
    => valResult = Validated

\* a call on a consistent row with a non-zero total and tax: 1.5 x 10.05 at 20 %
C2_Witness ==
  /\ valResult = Validated
  /\ valArgs.total_tva = NULL
  /\ valArgs.quantite = Dec(15, 1) /\ valArgs.prix_ht = Cents(1005)
  /\ valArgs.tva_pct = DecInt(20)
  /\ valArgs.total_ttc = Cents(1809)

\* C3: validateArticle returns Validated if and only if the total with tax
\* is within 1.00 of the expected total and the tax amount, whenever one is
\* present (any non-null value, 0 included), is within 1.00 of the expected
\* tax; in every other case it returns a Warning.
C3_ValidatedIff ==
  valResult # NULL =>
    LET a       == valArgs
        totalOk == WithinOne(RoundHalfUp2(ExactTotal(a.quantite, a.prix_ht, a.tva_pct)),
                             a.total_ttc)
        taxOk   == a.total_tva # NULL =>
                     WithinOne(RoundHalfUp2(ExactTax(a.quantite, a.prix_ht, a.tva_pct)),
                               a.total_tva)
    IN /\ (valResult = Validated) <=> (totalOk /\ taxOk)
       /\ valResult # Validated =>
            (~valResult.validated /\ valResult.ocr_warning # NULL)

(***************************************************************************)
(* Specification of the amount parser: parseMontant is called once, on a   *)
(* raw string of at most MaxRawLen characters of AmountAlphabet, or on an  *)
(* amount of at most MaxIntDigits integer digits and 2 fractional digits   *)
(* written with a space between thousands and a decimal comma.             *)
(***************************************************************************)
MaxRawLen == 4
MaxIntDigits == 4

AmountAlphabet == {"1", "5", " ", ",", ".", "a"}
AmountDigits   == {"0", "3", "9"}

DigitChars == << "0", "1", "2", "3", "4", "5", "6", "7", "8", "9" >>

RECURSIVE IntDigits(_)
IntDigits(n) ==
  IF n < 10 THEN << DigitChars[n + 1] >>
  ELSE IntDigits(n \div 10) \o << DigitChars[(n % 10) + 1] >>

RECURSIVE GroupThousands(_)
GroupThousands(ds) ==
  IF Len(ds) <= 3 THEN ds
  ELSE GroupThousands(SubSeq(ds, 1, Len(ds) - 3)) \o << " " >> \o
       SubSeq(ds, Len(ds) - 2, Len(ds))

\* d cents written like "1 350,00"
FormatAmount(d) ==
  GroupThousands(IntDigits(d \div 100)) \o << "," >> \o
  << DigitChars[((d % 100) \div 10) + 1], DigitChars[(d % 10) + 1] >>

AmountsToFormat ==
  { 100 * DigitsToInt(w) + DigitsToInt(f) :
      w \in TextsUpTo(AmountDigits, MaxIntDigits) \ { << >> },
      f \in { << a, b >> : a \in AmountDigits, b \in AmountDigits } }

AmtInit ==
  /\ \/ amtSrc = NULL /\ amtRaw \in TextsUpTo(AmountAlphabet, MaxRawLen)
     \/ \E d \in AmountsToFormat : amtSrc = [d |-> d] /\ amtRaw = FormatAmount(d)
  /\ amtOut = NULL
  /\ NoiseIdle /\ ValIdle /\ ArtIdle /\ DocIdle
  /\ RowIdle /\ MetaIdle /\ RunIdle
  /\ MergeIdle /\ OtpIdle /\ ResetIdle

ParseAmount ==
  /\ amtOut = NULL
  /\ amtOut' = parseMontant(amtRaw)
  /\ UNCHANGED <<amtSrc, amtRaw, noiseVars, valVars, artVars, docVars, rowVars, metaVars, runVars,
                 mergeVars, otpVars, resetVars>>

AmtNext == ParseAmount

SpecAmount == AmtInit /\ [][AmtNext]_vars

\* what the contract calls failing with MalformedAmount
MalformedAmount == [error |-> "MalformedAmount"]

\* raw with its whitespace stripped and its decimal comma made a decimal point
Translated(raw) == ReplaceFirst(SelectSeq(raw, LAMBDA c : c \notin SpaceCh), ",", ".")

\* s is a number: an optional sign, digits, and at most one point among them
ValidNumber(s) ==
  LET body == IF s # << >> /\ Head(s) \in {"+", "-"} THEN Tail(s) ELSE s
  IN /\ \E i \in 1..Len(body) : body[i] \in Digit
     /\ \A i \in 1..Len(body) : body[i] \in Digit \cup {"."}
     /\ Cardinality({ i \in 1..Len(body) : body[i] = "." }) <= 1

\* C9: parseMontant fails with MalformedAmount whenever the raw string, its
\* whitespace stripped and its decimal comma translated, is not a valid
\* number; it never returns zero or any other number for such an input.
C9_MalformedFails ==
  (amtOut # NULL /\ ~ValidNumber(Translated(amtRaw))) => amtOut = MalformedAmount

\* C10: amount round trip: a non-negative amount of 2 fractional digits,
\* written with a space between thousands and a decimal comma, is parsed
\* back by parseMontant to the same amount.
C10_RoundTrip ==
  (amtOut # NULL /\ amtSrc # NULL) => amtOut = Cents(amtSrc.d)

\* "3 909,03" was parsed
C10_Witness ==
  /\ amtSrc = [d |-> 390903]
  /\ amtRaw = << "3", " ", "9", "0", "9", ",", "0", "3" >>
  /\ amtOut = Dec(390903, 2)

(***************************************************************************)
(* Specification of the table extraction: the recognized table is a header *)
(* line, at most MaxRows rows of RowVocabulary and the line of the total   *)
(* before tax; extractArticles is called once on its normalized text.      *)
(***************************************************************************)
MaxRows == 2

\* "Dev  2 h  1,00  2,00  0,40  2,40  20%"
RowFull ==
  << "D", "e", "v", " ", " ", "2", " ", "h", " ", " ", "1", ",", "0", "0",
     " ", " ", "2", ",", "0", "0", " ", " ", "0", ",", "4", "0", " ", " ",
     "2", ",", "4", "0", " ", " ", "2", "0", "%" >>

\* "Dev  2 h  1,00  0,40  2,40  20%"
RowNoUnitPrice ==
  << "D", "e", "v", " ", " ", "2", " ", "h", " ", " ", "1", ",", "0", "0",
     " ", " ", "0", ",", "4", "0", " ", " ", "2", ",", "4", "0", " ", " ",
     "2", "0", "%" >>

\* "Audit  1 h  10,00  10,00  0,00  12,00  20%"
RowZeroTax ==
  << "A", "u", "d", "i", "t", " ", " ", "1", " ", "h", " ", " ", "1", "0",
     ",", "0", "0", " ", " ", "1", "0", ",", "0", "0", " ", " ", "0", ",",
     "0", "0", " ", " ", "1", "2", ",", "0", "0", " ", " ", "2", "0", "%" >>

\* "Dev  2 h  1,00  2,00  0,40  9,40  20%"
RowIncoherent ==
  << "D", "e", "v", " ", " ", "2", " ", "h", " ", " ", "1", ",", "0", "0",
     " ", " ", "2", ",", "0", "0", " ", " ", "0", ",", "4", "0", " ", " ",
     "9", ",", "4", "0", " ", " ", "2", "0", "%" >>

\* "Pose  3"
RowQuantityOnly ==
  << "P", "o", "s", "e", " ", " ", "3" >>

\* "détail  2"
RowDetail ==
  << "d", "é", "t", "a", "i", "l", " ", " ", "2" >>

\* "sur site"
RowText ==
  << "s", "u", "r", " ", "s", "i", "t", "e" >>

\* "TVA  20"
RowHeaderLike ==
  << "T", "V", "A", " ", " ", "2", "0" >>

RowVocabulary == { RowFull, RowNoUnitPrice, RowZeroTax, RowIncoherent,
                   RowQuantityOnly, RowDetail, RowText, RowHeaderLike }

\* "Description  Qte  PU  HT  TVA  TTC"
TableHeader ==
  << "D", "e", "s", "c", "r", "i", "p", "t", "i", "o", "n", " ", " ", "Q",
     "t", "e", " ", " ", "P", "U", " ", " ", "H", "T", " ", " ", "T", "V",
     "A", " ", " ", "T", "T", "C" >>

\* "Total HT 2,00"
TableEnd ==
  << "T", "o", "t", "a", "l", " ", "H", "T", " ", "2", ",", "0", "0" >>

TableText(rows) == Join(<< TableHeader >> \o rows \o << TableEnd >>, "\n")

ArtInit ==
  /\ tableRows = << >>
  /\ articles = NULL
  /\ NoiseIdle /\ ValIdle /\ AmtIdle /\ DocIdle
  /\ RowIdle /\ MetaIdle /\ RunIdle
  /\ MergeIdle /\ OtpIdle /\ ResetIdle

\* the engine recognized one more row of the table
ScanRow ==
  /\ articles = NULL
  /\ Len(tableRows) < MaxRows
  /\ \E row \in RowVocabulary : tableRows' = Append(tableRows, row)
  /\ UNCHANGED <<articles, noiseVars, valVars, amtVars, docVars, rowVars, metaVars, runVars,
                 mergeVars, otpVars, resetVars>>

ExtractArticles ==
  /\ articles = NULL
  /\ articles' = [items |-> extractArticles(fixOcrNoise(TableText(tableRows)))]
  /\ UNCHANGED <<tableRows, noiseVars, valVars, amtVars, docVars, rowVars, metaVars, runVars,
                 mergeVars, otpVars, resetVars>>

ArtNext == ScanRow \/ ExtractArticles

SpecArticles == ArtInit /\ [][ArtNext]_vars

\* the invariant of a Validated line item, on the item's own fields
ValidatedItemOk(a) ==
  /\ a.quantite # NULL /\ a.prix_unitaire_ht # NULL
  /\ a.tva_pct # NULL /\ a.total_ttc # NULL
  /\ WithinOne(RoundHalfUp2(ExactTotal(a.quantite, a.prix_unitaire_ht, a.tva_pct)),
               a.total_ttc)
  /\ a.total_tva # NULL =>
       WithinOne(RoundHalfUp2(ExactTax(a.quantite, a.prix_unitaire_ht, a.tva_pct)),
                 a.total_tva)

\* C4: every line item of the returned list that is marked Validated has a
\* non-null quantity, unit price, tax rate and total with tax, its total
\* with tax is within 1.00 of round(quantite * prix_unitaire_ht *
\* (1 + tva_pct/100), 2) and its tax amount, when present, is within 1.00
\* of round(quantite * prix_unitaire_ht * tva_pct/100, 2).
C4_ValidatedItems ==
  articles # NULL =>
    \A k \in 1..Len(articles.items) :
      articles.items[k].validated => ValidatedItemOk(articles.items[k])

AllNullNumeric(a) ==
  /\ a.quantite = NULL /\ a.prix_unitaire_ht = NULL /\ a.total_ht = NULL
  /\ a.total_tva = NULL /\ a.total_ttc = NULL

\* what the first row of the table block parses to (NULL: to no item)
FirstRowItem(text) ==
  LET lines == TableLines(text)
  IN IF lines = << >> THEN NULL ELSE parseArticleLine(lines[1])

\* C5 as stated: an item whose numeric fields are all null is never emitted
\* as a standalone item unless it comes from the first row of the table.
C5_FoldedUnlessFirstRow ==
  articles # NULL =>
    \A k \in 1..Len(articles.items) :
      AllNullNumeric(articles.items[k]) =>
        (k = 1 /\ FirstRowItem(fixOcrNoise(TableText(tableRows))) # NULL)

\* C5: an item whose numeric fields are all null is never emitted as a
\* standalone item unless it is the first item of the returned sequence,
\* that is, unless no earlier row of the table produced an item.
C5_FoldedUnlessFirstItem ==
  articles # NULL =>
    \A k \in 1..Len(articles.items) :
      AllNullNumeric(articles.items[k]) => k = 1

\* the row "détail  2" below a full row was folded into that row's item
C5_Witness ==
  /\ articles # NULL
  /\ tableRows = << RowFull, RowDetail >>
  /\ Len(articles.items) = 1
  /\ articles.items[1].description =
       << "D", "e", "v", " ", "d", "é", "t", "a", "i", "l" >>
  /\ articles.items[1].validated

(***************************************************************************)
(* Specification of a request: processInvoice receives a file, the OCR     *)
(* engine recognizes a text and a confidence (or fails), and                *)
(* extractInvoiceDetails builds the result.  The recognized text is made of *)
(* any of five sections, in the order of an invoice, or is blank.           *)
(***************************************************************************)
LowConfidence == 70

Confidences == {0, 69, 70, 100}

\* "Vendeur\nAcme\n75001 Paris"
SecVendeur ==
  << "V", "e", "n", "d", "e", "u", "r", "\n", "A", "c", "m", "e", "\n",
     "7", "5", "0", "0", "1", " ", "P", "a", "r", "i", "s" >>

\* "Client\nBob SARL"
SecClient ==
  << "C", "l", "i", "e", "n", "t", "\n", "B", "o", "b", " ", "S", "A", "R",
     "L" >>

\* "Facture N° F24-01\nDate de facture: 1/2/24"
SecMeta ==
  << "F", "a", "c", "t", "u", "r", "e", " ", "N", "°", " ", "F", "2", "4",
     "-", "0", "1", "\n", "D", "a", "t", "e", " ", "d", "e", " ", "f", "a",
     "c", "t", "u", "r", "e", ":", " ", "1", "/", "2", "/", "2", "4" >>

\* "Description  Qte\nDev  2 h  1,00  0,40  2,40  20%"
SecTable ==
  << "D", "e", "s", "c", "r", "i", "p", "t", "i", "o", "n", " ", " ", "Q",
     "t", "e", "\n", "D", "e", "v", " ", " ", "2", " ", "h", " ", " ", "1",
     ",", "0", "0", " ", " ", "0", ",", "4", "0", " ", " ", "2", ",", "4",
     "0", " ", " ", "2", "0", "%" >>

\* "Total HT 2,00\nTVA 0,40\nTotal TTC 2,40"
SecTotaux ==
  << "T", "o", "t", "a", "l", " ", "H", "T", " ", "2", ",", "0", "0", "\n",
     "T", "V", "A", " ", "0", ",", "4", "0", "\n", "T", "o", "t", "a", "l",
     " ", "T", "T", "C", " ", "2", ",", "4", "0" >>

SectionNames == {"vendeur", "client", "meta", "table", "totaux"}

SectionsInOrder ==
  << [name |-> "vendeur", text |-> SecVendeur],
     [name |-> "client",  text |-> SecClient],
     [name |-> "meta",    text |-> SecMeta],
     [name |-> "table",   text |-> SecTable],
     [name |-> "totaux",  text |-> SecTotaux] >>

\* the text made of the sections of parts, one below the other
Compose(parts) ==
  Join(MapSeq(LAMBDA sec : sec.text,
              SelectSeq(SectionsInOrder, LAMBDA sec : sec.name \in parts)),
       "\n")

\* what the engine recognizes on a page without text
BlankTexts == { << >>, << " ", "\n", " " >> }

\* the whole page with CR LF line ends
CrLfPage == ReplaceAll(Set({"\n"}), Compose(SectionNames), << "\r", "\n" >>)

\* the whole page with the total of its row misread: "9,40" for "2,40"
MisreadPage ==
  ReplaceOnce(Lit(<< "2", ",", "4", "0", " ", " ", "2", "0", "%" >>), Compose(SectionNames),
              << "9", ",", "4", "0", " ", " ", "2", "0", "%" >>)

\* the texts the engine may recognize on a page that shows the sections parts
RecognizedTexts(parts) ==
  IF parts = {} THEN BlankTexts
  ELSE IF parts = SectionNames
  THEN { Compose(parts), CrLfPage, MisreadPage }
  ELSE { Compose(parts) }

\* lowConfidenceWarnings warning at the threshold too (confidence <= 70)
lowConfidenceWarnings_AtThreshold(conf) ==
  IF conf <= LowConfidence
  THEN << [text |-> "Confiance OCR faible", confidence |-> conf] >>
  ELSE << >>

\* const warnings = []; if (confidence < 70) warnings.push(...)
lowConfidenceWarnings(conf) ==
  IF conf < LowConfidence
  THEN << [text |-> "Confiance OCR faible", confidence |-> conf] >>
  ELSE << >>

InternalServerError(message) ==
  [error |-> "InternalServerErrorException", message |-> message]

DocInit ==
  /\ DocIdle /\ NoiseIdle /\ ValIdle /\ AmtIdle /\ ArtIdle
  /\ RowIdle /\ MetaIdle /\ RunIdle
  /\ MergeIdle /\ OtpIdle /\ ResetIdle

\* if (!file?.buffer) throw new InternalServerErrorException(...)
RejectMissingFile ==
  /\ pc = "idle"
  /\ pc' = "failed"
  /\ outcome' = InternalServerError("Fichier vide ou manquant")
  /\ UNCHANGED <<docParts, docText, confidence, warnings,
                 noiseVars, valVars, amtVars, artVars, rowVars, metaVars, runVars,
                 mergeVars, otpVars, resetVars>>

\* the file has a buffer: preprocessImage and Tesseract.recognize are awaited
AcceptFile ==
  /\ pc = "idle"
  /\ pc' = "recognizing"
  /\ UNCHANGED <<docParts, docText, confidence, warnings, outcome,
                 noiseVars, valVars, amtVars, artVars, rowVars, metaVars, runVars,
                 mergeVars, otpVars, resetVars>>

\* preprocessImage or Tesseract.recognize rejects: the catch clause
RecognitionFails ==
  /\ pc = "recognizing"
  /\ pc' = "failed"
  /\ outcome' = InternalServerError("Erreur lors du traitement OCR")
  /\ UNCHANGED <<docParts, docText, confidence, warnings,
                 noiseVars, valVars, amtVars, artVars, rowVars, metaVars, runVars,
                 mergeVars, otpVars, resetVars>>

\* the engine resolves with a text and a confidence: the warning on a low
\* confidence, then extractInvoiceDetails, whose value is returned
Recognized ==
  /\ pc = "recognizing"
  /\ \E parts \in SUBSET SectionNames, conf \in Confidences :
       \E text \in RecognizedTexts(parts) :
         /\ docParts' = parts
         /\ docText' = text
         /\ confidence' = conf
         /\ warnings' = lowConfidenceWarnings(conf)
         /\ outcome' = extractInvoiceDetails(text, conf,
                                             lowConfidenceWarnings(conf))
  /\ pc' = "returned"
  /\ UNCHANGED <<noiseVars, valVars, amtVars, artVars, rowVars, metaVars, runVars,
                 mergeVars, otpVars, resetVars>>

DocNext == RejectMissingFile \/ AcceptFile \/ RecognitionFails \/ Recognized

SpecInvoice == DocInit /\ [][DocNext]_vars

IsInvoiceResult(r) == r # NULL /\ "error" \notin DOMAIN r

\* the fields of an InvoiceResult that a section of the text fills
FieldsOf(r, section) ==
  CASE section = "vendeur" -> << r.vendeur >>
    [] section = "client"  -> << r.client >>
    [] section = "meta"    -> << r.date_facturation, r.date_echeance,
                                 r.numero_facture, r.conditions_paiement,
                                 r.reference_commande >>
    [] section = "table"   -> << r.articles >>
    [] section = "totaux"  -> << r.totaux.total_ht, r.totaux.total_tva,
                                 r.totaux.total_ttc >>

\* the fields of a section are null (the list of articles: empty)
NothingFound(r, section) ==
  IF section = "table" THEN r.articles = << >>
  ELSE \A i \in 1..Len(FieldsOf(r, section)) : FieldsOf(r, section)[i] = NULL

\* what the same request returns on the text with one more section
WithSection(section) ==
  extractInvoiceDetails(Compose(docParts \cup {section}), confidence, warnings)

\* C6: a non-empty text without a client label yields client = null, no
\* exception, and every other field (vendor, metadata, line items, totals)
\* as it is extracted from the same text with the client section present.
C6_MissingClient ==
  (pc = "returned" /\ docText # << >> /\ "client" \notin docParts) =>
    /\ IsInvoiceResult(outcome)
    /\ outcome.client = NULL
    /\ \A other \in SectionNames \ {"client"} :
         FieldsOf(outcome, other) = FieldsOf(WithSection("client"), other)

\* C7: an empty or whitespace-only text is rejected with an input error
\* before any extraction stage runs: no InvoiceResult is returned for it.
C7_EmptyRejected ==
  (pc = "returned" /\ Trim(docText) = << >>) => ~IsInvoiceResult(outcome)

\* C8: for a non-empty text and any confidence the request returns an
\* InvoiceResult, never an exception; a section that cannot be found
\* yields null (an empty list of articles) for its own fields, and for
\* those only: the other fields are what they are with the section present.
C8_GracefulDegradation ==
  (pc = "returned" /\ docText # << >>) =>
    /\ IsInvoiceResult(outcome)
    /\ \A missing \in SectionNames \ docParts :
         /\ NothingFound(outcome, missing)
         /\ \A other \in SectionNames \ {missing} :
              FieldsOf(outcome, other) = FieldsOf(WithSection(missing), other)

\* the text the extraction stages of the request read
FixedTextOf(text) ==
  fixOcrNoise(Trim(ReplaceAll(RxBlankRuns, text, << "\n", "\n" >>)))

SegmentedSections == {"vendeur", "client", "table"}

\* the label a section block starts at
SectionLabel(section) ==
  CASE section = "vendeur" -> LitI(<< "V", "e", "n", "d", "e", "u", "r" >>)
    [] section = "client"  ->
         Alt(<< LitI(<< "C", "l", "i", "e", "n", "t" >>), LitI(<< "A", "c", "h", "e", "t", "e", "u", "r" >>),
                LitI(<< "D", "e", "s", "t", "i", "n", "a", "t", "a", "i", "r", "e" >>) >>)
    [] section = "table"   ->
         Alt(<< LitI(<< "D", "e", "s", "c", "r", "i", "p", "t", "i", "o", "n" >>), LitI(<< "D", "é", "s", "i", "g", "n", "a", "t", "i", "o", "n" >>),
                LitI(<< "L", "i", "b", "e", "l", "l", "é" >>), LitI(<< "P", "r", "e", "s", "t", "a", "t", "i", "o", "n" >>) >>)

\* the labels a section block stops at
StopLabels(section) ==
  CASE section = "vendeur" ->
         Cat(<< Set({"\n"}), SectionLabel("client"), WordB >>)
    [] section = "client"  ->
         Cat(<< Set({"\n"}),
                Alt(<< LitI(<< "D", "a", "t", "e" >>), LitI(<< "N", "°" >>), LitI(<< "N", "u", "m", "é", "r", "o" >>),
                       LitI(<< "R", "é", "f", "é", "r", "e", "n", "c", "e" >>), LitI(<< "F", "a", "c", "t", "u", "r", "e" >>) >>), WordB >>)
    [] section = "table"   ->
         Alt(<< Cat(<< LitI(<< "T", "o", "t", "a", "l" >>), Star(Set(SpaceCh)), Set(CI({"H"})),
                       Opt(Set({"."})), Set(CI({"T"})), Opt(Set({"."})) >>),
                LitI(<< "S", "o", "u", "s", "-", "t", "o", "t", "a", "l" >>),
                Cat(<< LitI(<< "M", "o", "n", "t", "a", "n", "t" >>), Star(Set(SpaceCh)),
                       LitI(<< "H", "T" >>) >>) >>)

\* the match of the block pattern of a section in a text
BlockMatch(section, text) ==
  IF section = "table" THEN Match(RxTableBlock, text)
  ELSE Match(blockPatterns(section), text)

\* a block from the label match to the first stop label after it, or to the
\* end of the text
SegmentEnds(text, block, label, stop) ==
  /\ Matched(block)
  /\ block.start = label.start
  /\ block.end = (IF Matched(stop) THEN stop.start ELSE Len(text) + 1)

SegmentOk(section, text, block, label) ==
  IF Matched(label)
  THEN SegmentEnds(text, block, label,
                   ExecFrom(StopLabels(section), text, label.end))
  ELSE ~Matched(block)

SegmentsOk(text) ==
  \A section \in SegmentedSections :
    SegmentOk(section, text, BlockMatch(section, text),
              Match(SectionLabel(section), text))

\* C12: a section block runs from the first occurrence of its label to the
\* first stop label after it, or to the end of the text when there is none;
\* it is absent only when the label is missing.
C12_SegmentToEnd == pc = "returned" => SegmentsOk(FixedTextOf(docText))

\* the text extractInvoiceDetails cleans: runs of three or more line feeds
\* made two, then trimmed
CleanTextOf(text) == Trim(ReplaceAll(RxBlankRuns, text, << "\n", "\n" >>))

\* C14 as stated: meta.confidence is the confidence received and
\* meta.rawText is the output of the normalizer that the stages read.
C14_RawTextNormalized ==
  (pc = "returned" /\ IsInvoiceResult(outcome)) =>
    /\ outcome.meta.confidence = confidence
    /\ outcome.meta.rawText = FixedTextOf(docText)

\* C14: meta.confidence is the confidence received, unchanged, and
\* meta.rawText is the recognized text with its runs of three or more line
\* feeds made two and trimmed: the text handed to the normalizer, not the
\* normalizer's output.
C14_RawTextCleaned ==
  (pc = "returned" /\ IsInvoiceResult(outcome)) =>
    /\ outcome.meta.confidence = confidence
    /\ outcome.meta.rawText = CleanTextOf(docText)

\* the page with CR LF line ends was returned: its raw text keeps them, the
\* text the stages read does not
C14_Witness ==
  /\ pc = "returned"
  /\ docText = CrLfPage
  /\ confidence = 69
  /\ outcome.meta.confidence = 69
  /\ outcome.meta.rawText = CrLfPage
  /\ outcome.meta.rawText # FixedTextOf(docText)
  /\ outcome.numero_facture # NULL

\* the price the cross-validation of an item takes: prix_ht ?? total_ht
PriceOf(a) ==
  IF a.prix_unitaire_ht # NULL THEN a.prix_unitaire_ht ELSE a.total_ht

\* the item went through validateArticle, which found its amounts incoherent
FailedCrossValidation(a) ==
  /\ Truthy(a.total_ttc) /\ Truthy(a.tva_pct) /\ Truthy(PriceOf(a))
  /\ Truthy(a.quantite)
  /\ validateArticle(a.quantite, PriceOf(a), a.tva_pct, a.total_tva,
                     a.total_ttc) # Validated

\* C15 as stated: meta.warnings holds a warning exactly when the confidence
\* is below the threshold or a line item failed cross-validation.
C15_WarningsIffLowOrFailed ==
  pc = "returned" =>
    /\ IsInvoiceResult(outcome)
    /\ outcome.meta.warnings # << >> <=>
         \/ confidence < LowConfidence
         \/ \E k \in 1..Len(outcome.articles) :
              FailedCrossValidation(outcome.articles[k])

\* C15: meta.warnings holds a warning (one) exactly when the confidence is
\* below the threshold; a line item that failed cross-validation carries
\* its warning in the item and adds none to meta.warnings; no exception is
\* raised in either case.
C15_WarningsIffLowConfidence ==
  pc = "returned" =>
    /\ IsInvoiceResult(outcome)
    /\ outcome.meta.warnings # << >> <=> confidence < LowConfidence
    /\ Len(outcome.meta.warnings) <= 1
    /\ \A k \in 1..Len(outcome.articles) :
         FailedCrossValidation(outcome.articles[k]) =>
           /\ ~outcome.articles[k].validated
           /\ outcome.articles[k].ocr_warning # NULL
           /\ outcome.articles[k].ocr_warning.text = "Incoherence"

\* the page with the misread total was returned at the threshold: its item
\* carries the warning, the list of warnings is empty
C15_Witness ==
  /\ pc = "returned"
  /\ docText = MisreadPage
  /\ confidence = LowConfidence
  /\ Len(outcome.articles) = 1
  /\ FailedCrossValidation(outcome.articles[1])
  /\ outcome.articles[1].ocr_warning.extrait = Cents(940)
  /\ outcome.meta.warnings = << >>

\* what the row parses to in a table that holds no other row: no item or
\* one item
SoloItems(row) == extractArticles(fixOcrNoise(TableText(<< row >>)))

\* the parse results of the rows, each taken alone, in the order of the rows
RECURSIVE SoloParsed(_)
SoloParsed(rows) ==
  IF rows = << >> THEN << >>
  ELSE SoloItems(rows[1]) \o SoloParsed(Tail(rows))

\* the item is what the row parsed to, its description possibly continued
StartsAs(item, parsed) ==
  /\ [item EXCEPT !.description = parsed.description] = parsed
  /\ Len(item.description) >= Len(parsed.description)
  /\ SubSeq(item.description, 1, Len(parsed.description)) = parsed.description

\* the items come from parse results met in this order, some being skipped
RECURSIVE InOrderOf(_, _)
InOrderOf(items, parsed) ==
  IF items = << >> THEN TRUE
  ELSE IF parsed = << >> THEN FALSE
  ELSE IF StartsAs(items[1], parsed[1])
       THEN InOrderOf(Tail(items), Tail(parsed))
  ELSE InOrderOf(items, Tail(parsed))

\* C20: the items extractArticles returns are the parse results of the
\* rows in the order of the rows (continuation rows folded into the item
\* before them), and each row parses as it does in a table of its own,
\* whatever the other rows are.
C20_OrderAndIndependence ==
  articles # NULL =>
    /\ articles.items = mergeMultilineArticles(SoloParsed(tableRows))
    /\ InOrderOf(articles.items, SoloParsed(tableRows))

\* two rows that parse to different items, returned in the order of the rows
C20_Witness ==
  /\ articles # NULL
  /\ tableRows = << RowNoUnitPrice, RowFull >>
  /\ Len(articles.items) = 2
  /\ articles.items[1].prix_unitaire_ht = NULL
  /\ articles.items[2].prix_unitaire_ht = Cents(100)
  /\ << articles.items[1] >> = SoloItems(RowNoUnitPrice)
  /\ << articles.items[2] >> = SoloItems(RowFull)

\* the item carries one validation outcome: the validated mark or a
\* warning with a text, not both and not neither
OneOutcome(a) ==
  /\ a.validated <=> a.ocr_warning = NULL
  /\ a.ocr_warning # NULL => a.ocr_warning.text # ""

\* C23: every item extractArticles returns carries exactly one validation
\* outcome, the validated mark or a non-empty warning, and a description of
\* at least two characters, the items continued by a following row included.
C23_OneOutcome ==
  articles # NULL =>
    \A k \in 1..Len(articles.items) :
      /\ OneOutcome(articles.items[k])
      /\ Len(articles.items[k].description) >= 2

\* a full row and a row without numbers gave one validated item whose
\* description was continued; an incoherent row gives an item with a warning
C23_Witness ==
  /\ articles # NULL
  /\ tableRows = << RowFull, RowDetail >>
  /\ Len(articles.items) = 1
  /\ articles.items[1].description =
       << "D", "e", "v", " ", "d", "é", "t", "a", "i", "l" >>
  /\ articles.items[1].validated
  /\ articles.items[1].ocr_warning = NULL

(***************************************************************************)
(* Specification of the row parser: a row of the table is a description    *)
(* and columns two spaces apart (an optional quantity, amounts, a tax rate  *)
(* after the first amount), and parseArticleLine is called on it.          *)
(***************************************************************************)
MaxAmounts == 5

\* a column: its text and, for an amount, its value in cents
ColConsulting == [text |-> << "C", "o", "n", "s", "u", "l", "t", "i", "n", "g" >>, cents |-> NULL]
ColService    == [text |-> << "S", "e", "r", "v", "i", "c", "e" >>, cents |-> NULL]
ColQty10      == [text |-> << "1", "0" >>, cents |-> NULL]
ColQty0       == [text |-> << "0" >>, cents |-> NULL]
ColRate20     == [text |-> << "2", "0", "%" >>, cents |-> NULL]
ColRate0      == [text |-> << "0", "%" >>, cents |-> NULL]
ColRate150    == [text |-> << "1", "5", "0", "%" >>, cents |-> NULL]

RowDescriptions == { ColConsulting, ColService }
RowQuantities   == { << >>, << ColQty10 >>, << ColQty0 >> }
RowRates        == { << >>, << ColRate20 >>, << ColRate0 >>, << ColRate150 >> }

\* the amount columns of a full row, and more to their left
AmountColumns ==
  << [text |-> << "0", ",", "5", "0" >>, cents |-> 50],
     [text |-> << "5", ",", "0", "0" >>, cents |-> 500],
     [text |-> << "1", " ", "3", "5", "0", ",", "0", "0" >>, cents |-> 135000],
     [text |-> << "1", "5", "0", ",", "0", "0", "<euro>" >>, cents |-> 15000],
     [text |-> << "3", "0", "0", ",", "0", "0", " ", "<euro>" >>, cents |-> 30000],
     [text |-> << "1", "8", "0", "0", ",", "0", "0", " ", "<euro>" >>, cents |-> 180000] >>

\* the n rightmost amount columns
LastAmounts(n) ==
  SubSeq(AmountColumns, Len(AmountColumns) - n + 1, Len(AmountColumns))

\* "150,00 €", "180,00 €": a unit price and a total, no quantity column
AmountsPriceTotal ==
  << [text |-> << "1", "5", "0", ",", "0", "0", " ", "<euro>" >>, cents |-> 15000],
     [text |-> << "1", "8", "0", ",", "0", "0", " ", "<euro>" >>, cents |-> 18000] >>

\* the amounts of the full row, its total misread as 1900,00
AmountsMisread ==
  << [text |-> << "1", "5", "0", ",", "0", "0", "<euro>" >>, cents |-> 15000],
     [text |-> << "3", "0", "0", ",", "0", "0", " ", "<euro>" >>, cents |-> 30000],
     [text |-> << "1", "9", "0", "0", ",", "0", "0", " ", "<euro>" >>, cents |-> 190000] >>

AmountLists ==
  { LastAmounts(n) : n \in 0..(IF MaxAmounts < Len(AmountColumns)
                               THEN MaxAmounts ELSE Len(AmountColumns)) }
    \cup { AmountsPriceTotal, AmountsMisread }

\* the columns of a row in reading order: the description, the quantity,
\* the first amount, the tax rate, the other amounts
ColumnsOf(r) ==
  << r.desc >> \o r.qty \o
  (IF r.amounts = << >> THEN r.rate
   ELSE << r.amounts[1] >> \o r.rate \o Tail(r.amounts))

\* the text of a row: its columns, two spaces apart
RECURSIVE JoinColumns(_)
JoinColumns(cols) ==
  IF cols = << >> THEN << >>
  ELSE IF Len(cols) = 1 THEN cols[1].text
  ELSE cols[1].text \o << " ", " " >> \o JoinColumns(Tail(cols))

RowTextOf(r) == JoinColumns(ColumnsOf(r))

RowInit ==
  /\ RowIdle
  /\ NoiseIdle /\ ValIdle /\ AmtIdle /\ ArtIdle /\ DocIdle
  /\ MetaIdle /\ RunIdle
  /\ MergeIdle /\ OtpIdle /\ ResetIdle

\* extractArticles comes to a row of the table
ReadRow ==
  /\ rowCols = NULL
  /\ \E desc \in RowDescriptions, qty \in RowQuantities,
        amounts \in AmountLists, rate \in RowRates :
       rowCols' = [desc |-> desc, qty |-> qty, amounts |-> amounts,
                   rate |-> rate]
  /\ UNCHANGED <<rowItem, noiseVars, valVars, amtVars, artVars, docVars,
                 metaVars, runVars,
                 mergeVars, otpVars, resetVars>>

ParseRow ==
  /\ rowCols # NULL
  /\ rowItem = NULL
  /\ rowItem' = [item |-> parseArticleLine(RowTextOf(rowCols))]
  /\ UNCHANGED <<rowCols, noiseVars, valVars, amtVars, artVars, docVars,
                 metaVars, runVars,
                 mergeVars, otpVars, resetVars>>

RowNext == ReadRow \/ ParseRow

SpecRow == RowInit /\ [][RowNext]_vars

\* the amount tokens parseArticleLine collects from a row, in reading order
AmountTokensOf(lineNoEuro) ==
  montantsOf(lineNoEuro, MatchesFrom(montantPattern, lineNoEuro, 1))

AmountTokens(line) == AmountTokensOf(ReplaceAll(RxEuro, line, << >>))

\* the values of the amount columns of a row, in reading order
AmountValues(r) == [i \in 1..Len(r.amounts) |-> Cents(r.amounts[i].cents)]

\* "Consulting  10  150,00€  20%  300,00 €  1800,00 €"
CleanRow ==
  [desc |-> ColConsulting, qty |-> << ColQty10 >>, amounts |-> LastAmounts(3),
   rate |-> << ColRate20 >>]

\* C11: the clean row yields description "Consulting", quantity 10, unit
\* price 150.00, tax rate 20, tax amount 300.00, total with tax 1800.00 and
\* Validated; and in every row each amount column is tokenized as its own
\* amount, a quantity column before it never being part of the token.
C11_CleanRow ==
  rowItem # NULL =>
    /\ AmountTokens(RowTextOf(rowCols)) = AmountValues(rowCols)
    /\ rowCols = CleanRow =>
         /\ rowItem.item # NULL
         /\ rowItem.item.description = ColConsulting.text
         /\ rowItem.item.quantite = DecInt(10)
         /\ rowItem.item.prix_unitaire_ht = Cents(15000)
         /\ rowItem.item.tva_pct = DecInt(20)
         /\ rowItem.item.total_tva = Cents(30000)
         /\ rowItem.item.total_ttc = Cents(180000)
         /\ rowItem.item.validated

\* the amount fields of an item, from the last amount to the fourth-to-last
AmountFields(item) ==
  << item.total_ttc, item.total_tva, item.total_ht, item.prix_unitaire_ht >>

\* the fields of the item are the last four of the amounts a, right to left
RightAnchored(item, a) ==
  /\ \A k \in 1..4 :
       AmountFields(item)[k] = IF Len(a) >= k THEN a[Len(a) - k + 1] ELSE NULL
  /\ \A i \in 1..(Len(a) - 4), k \in 1..4 :
       AmountFields(item)[k] = a[i] =>
         \E j \in (Len(a) - 3)..Len(a) : a[j] = a[i]

OutcomeOf(item) ==
  [validated |-> item.validated, ocr_warning |-> item.ocr_warning]

\* the four values of the gate are present (non-null)
AllPresent(item) ==
  /\ item.quantite # NULL /\ PriceOf(item) # NULL
  /\ item.tva_pct # NULL /\ item.total_ttc # NULL

\* C17: the item carries the outcome of validateArticle exactly when its
\* quantity, price (unit price, else total before tax), tax rate and total
\* with tax are all non-null, a value of 0 included; otherwise it carries
\* the partial-extraction warning and is not validated.
C17_ValidatedWhenPresent ==
  (rowItem # NULL /\ rowItem.item # NULL) =>
    OutcomeOf(rowItem.item) =
      IF AllPresent(rowItem.item)
      THEN validateArticle(rowItem.item.quantite, PriceOf(rowItem.item),
                           rowItem.item.tva_pct, rowItem.item.total_tva,
                           rowItem.item.total_ttc)
      ELSE PartialWarning

\* C18: the quantity of a row is the number of its quantity column; in a
\* row whose first column after the description is an amount, such as
\* "Service  150,00 <euro>  20%  180,00 <euro>", the quantity is null.
C18_QuantityNotAmount ==
  (rowItem # NULL /\ rowItem.item # NULL) =>
    /\ rowCols.qty # << >> =>
         rowItem.item.quantite = parseFloat(rowCols.qty[1].text)
    /\ (rowCols.qty = << >> /\ rowCols.amounts # << >>) =>
         rowItem.item.quantite = NULL

\* an integer from 0 to 100
IsPercentage(x) == x.e = 0 /\ x.m >= 0 /\ x.m <= 100

\* C21: the tax rate of the item of a row is null or an integer from 0 to
\* 100, whatever the row holds, a column "150%" included.
C21_TaxRateRange ==
  (rowItem # NULL /\ rowItem.item # NULL) =>
    \/ rowItem.item.tva_pct = NULL
    \/ IsPercentage(rowItem.item.tva_pct)

(***************************************************************************)
(* Specification of concurrent requests: each request is a call of         *)
(* processInvoice on the one OcrService; the calls interleave at their      *)
(* awaits (preprocessImage, Tesseract.recognize), and what follows an await *)
(* up to the return runs without interruption.  OcrService has no field     *)
(* but its logger, so a call reads and writes its own locals only.          *)
(***************************************************************************)
Runs == {"a", "b"}

RunTexts == { SecMeta, SecTotaux }

NewRun ==
  [pc |-> "idle", text |-> << >>, confidence |-> 0, warnings |-> << >>,
   outcome |-> NULL]

RunInit ==
  /\ runs = [r \in Runs |-> NewRun]
  /\ NoiseIdle /\ ValIdle /\ AmtIdle /\ ArtIdle /\ DocIdle
  /\ RowIdle /\ MetaIdle
  /\ MergeIdle /\ OtpIdle /\ ResetIdle

RunUnchanged ==
  UNCHANGED <<noiseVars, valVars, amtVars, artVars, docVars, rowVars,
              metaVars,
                 mergeVars, otpVars, resetVars>>

\* if (!file?.buffer) throw new InternalServerErrorException(...)
RunRejectMissingFile(r) ==
  /\ runs[r].pc = "idle"
  /\ runs' = [runs EXCEPT ![r].pc = "failed",
                          ![r].outcome =
                            InternalServerError("Fichier vide ou manquant")]
  /\ RunUnchanged

\* the file has a buffer: the call waits for the image and the recognition
RunAcceptFile(r) ==
  /\ runs[r].pc = "idle"
  /\ runs' = [runs EXCEPT ![r].pc = "recognizing"]
  /\ RunUnchanged

\* preprocessImage or Tesseract.recognize rejects: the catch clause
RunRecognitionFails(r) ==
  /\ runs[r].pc = "recognizing"
  /\ runs' = [runs EXCEPT ![r].pc = "failed",
                          ![r].outcome =
                            InternalServerError("Erreur lors du traitement OCR")]
  /\ RunUnchanged

\* the result of a call that extracts from the text another call recognized,
\* as it would with the recognized text kept in a field of the service
RunReturns_SharedText(r, text, conf) ==
  [pc |-> "returned", text |-> text, confidence |-> conf,
   warnings |-> lowConfidenceWarnings(conf),
   outcome |->
     extractInvoiceDetails(
       IF \E o \in Runs \ {r} : runs[o].pc = "returned"
       THEN runs[CHOOSE o \in Runs \ {r} : runs[o].pc = "returned"].text
       ELSE text,
       conf, lowConfidenceWarnings(conf))]

\* the call resumes with result.data and returns extractInvoiceDetails(...)
RunReturns(r, text, conf) ==
  [pc |-> "returned", text |-> text, confidence |-> conf,
   warnings |-> lowConfidenceWarnings(conf),
   outcome |-> extractInvoiceDetails(text, conf, lowConfidenceWarnings(conf))]

RunRecognized(r) ==
  /\ runs[r].pc = "recognizing"
  /\ \E text \in RunTexts, conf \in Confidences :
       runs' = [runs EXCEPT ![r] = RunReturns(r, text, conf)]
  /\ RunUnchanged

RunNext ==
  \E r \in Runs :
    \/ RunRejectMissingFile(r)
    \/ RunAcceptFile(r)
    \/ RunRecognitionFails(r)
    \/ RunRecognized(r)

SpecRuns == RunInit /\ [][RunNext]_vars

\* what a request alone returns for a text and a confidence
AloneResult(text, conf) ==
  extractInvoiceDetails(text, conf, lowConfidenceWarnings(conf))

MaxMetaLines == 3

\* "Date de facture: 01/02/2024"
LineIssue ==
  [label |-> "issue",
   text  |-> << "D", "a", "t", "e", " ", "d", "e", " ", "f", "a", "c", "t", "u", "r", "e", ":", " " >> \o
              << "0", "1", "/", "0", "2", "/", "2", "0", "2", "4" >>,
   date  |-> Str(<< "0", "1", "/", "0", "2", "/", "2", "0", "2", "4" >>)]

\* "Date d'échéance: 15/03/2024"
LineDue ==
  [label |-> "due",
   text  |-> << "D", "a", "t", "e", " ", "d", "'", "é", "c", "h", "é", "a", "n", "c", "e", ":", " " >> \o
              << "1", "5", "/", "0", "3", "/", "2", "0", "2", "4" >>,
   date  |-> Str(<< "1", "5", "/", "0", "3", "/", "2", "0", "2", "4" >>)]

\* "Le 5.6.24"
LineDateShort ==
  [label |-> "none",
   text  |-> << "L", "e", " " >> \o
              << "5", ".", "6", ".", "2", "4" >>,
   date  |-> Str(<< "5", ".", "6", ".", "2", "4" >>)]

\* "Paris, 7-8-2024"
LineDateDashed ==
  [label |-> "none",
   text  |-> << "P", "a", "r", "i", "s", ",", " " >> \o
              << "7", "-", "8", "-", "2", "0", "2", "4" >>,
   date  |-> Str(<< "7", "-", "8", "-", "2", "0", "2", "4" >>)]

\* "Acme SARL"
LineNoDate ==
  [label |-> "none",
   text  |-> << "A", "c", "m", "e", " ", "S", "A", "R", "L" >>,
   date  |-> NULL]

MetaLineKinds ==
  { LineIssue, LineDue, LineDateShort, LineDateDashed, LineNoDate }

\* the text of the lines, one under the other
MetaTextOf(lines) == Join([i \in 1..Len(lines) |-> lines[i].text], "\n")

MetaInit ==
  /\ MetaIdle
  /\ NoiseIdle /\ ValIdle /\ AmtIdle /\ ArtIdle /\ DocIdle
  /\ RowIdle /\ RunIdle
  /\ MergeIdle /\ OtpIdle /\ ResetIdle

\* one more line of the text that extractMetadata will be given
AddMetaLine ==
  /\ metaOut = NULL
  /\ Len(metaLines) < MaxMetaLines
  /\ \E l \in MetaLineKinds : metaLines' = Append(metaLines, l)
  /\ UNCHANGED <<metaOut, noiseVars, valVars, amtVars, artVars, docVars,
                 rowVars, runVars,
                 mergeVars, otpVars, resetVars>>

ExtractMetadata ==
  /\ metaOut = NULL
  /\ metaOut' = extractMetadata(MetaTextOf(metaLines))
  /\ UNCHANGED <<metaLines, noiseVars, valVars, amtVars, artVars, docVars,
                 rowVars, runVars,
                 mergeVars, otpVars, resetVars>>

MetaNext == AddMetaLine \/ ExtractMetadata

SpecMeta == MetaInit /\ [][MetaNext]_vars

\* the dates of the lines, in reading order
RECURSIVE DatesOf(_)
DatesOf(lines) ==
  IF lines = << >> THEN << >>
  ELSE (IF lines[1].date = NULL THEN << >> ELSE << lines[1].date >>)
       \o DatesOf(Tail(lines))

\* the date of the first line under the label, the k-th date of the text
\* if no line is under it, null if the text has fewer than k dates
RECURSIVE LabeledOrNth(_, _, _, _)
LabeledOrNth(lines, label, k, dates) ==
  IF lines = << >>
  THEN (IF Len(dates) >= k THEN dates[k] ELSE NULL)
  ELSE IF lines[1].label = label THEN lines[1].date
  ELSE LabeledOrNth(Tail(lines), label, k, dates)

\* C19: the invoicing date is the date under the date-of-issue label if
\* there is one, else the first date of the text, null if none; the due
\* date is the date under the due-date label if there is one, else the
\* second date of the text, null if fewer than two, wherever the invoicing
\* date came from.
C19_DateFallback ==
  metaOut # NULL =>
    /\ metaOut.date_facturation =
         LabeledOrNth(metaLines, "issue", 1, DatesOf(metaLines))
    /\ metaOut.date_echeance =
         LabeledOrNth(metaLines, "due", 2, DatesOf(metaLines))

\* a text with a labeled date of issue, then two more dates and no due-date
\* label: the due date is the second date of the text, 5.6.24
C19_Witness ==
  /\ metaOut # NULL
  /\ metaLines = << LineIssue, LineDateShort, LineDateDashed >>
  /\ metaOut.date_facturation = LineIssue.date
  /\ metaOut.date_echeance = LineDateShort.date

(***************************************************************************)
(* Specification of the merger: mergeMultilineArticles is called on a list *)
(* of at most MaxParsed items, each what parseArticleLine returns for a    *)
(* row.                                                                    *)
(***************************************************************************)
MaxParsed == 3

\* "Café  12,00": a description and a total, no quantity
RowTotalOnly ==
  << "C", "a", "f", "é", " ", " ", "1", "2", ",", "0", "0" >>

ParsedVocabulary ==
  { parseArticleLine(row) :
      row \in { RowFull, RowIncoherent, RowQuantityOnly, RowDetail,
                RowTotalOnly } }

MergeInit ==
  /\ MergeIdle
  /\ NoiseIdle /\ ValIdle /\ AmtIdle /\ ArtIdle /\ DocIdle
  /\ RowIdle /\ MetaIdle /\ RunIdle /\ OtpIdle /\ ResetIdle

\* extractArticles pushed one more parsed row to the list
PushParsed ==
  /\ mergeOut = NULL
  /\ Len(mergeIn) < MaxParsed
  /\ \E item \in ParsedVocabulary : mergeIn' = Append(mergeIn, item)
  /\ UNCHANGED <<mergeOut, noiseVars, valVars, amtVars, artVars, docVars,
                 rowVars, metaVars, runVars, otpVars, resetVars>>

MergeArticles ==
  /\ mergeOut = NULL
  /\ mergeOut' = [items |-> mergeMultilineArticles(mergeIn)]
  /\ UNCHANGED <<mergeIn, noiseVars, valVars, amtVars, artVars, docVars,
                 rowVars, metaVars, runVars, otpVars, resetVars>>

MergeNext == PushParsed \/ MergeArticles

SpecMerge == MergeInit /\ [][MergeNext]_vars

\* quantity, unit price and total with tax are all null
NoNumbers(a) ==
  a.quantite = NULL /\ a.prix_unitaire_ht = NULL /\ a.total_ttc = NULL

\* the places of the items that are emitted: the first, and every later
\* one that has a quantity, a unit price or a total with tax
Emitted(items) ==
  { k \in 1..Len(items) : k = 1 \/ ~NoNumbers(items[k]) }

\* the place of the j-th emitted item
EmittedAt(items, j) ==
  CHOOSE k \in Emitted(items) :
    Cardinality({ h \in Emitted(items) : h <= k }) = j

\* the place of the last item folded into the one emitted from place k
FoldedUpTo(items, k) ==
  CHOOSE e \in k..Len(items) :
    /\ \A i \in (k + 1)..e : i \notin Emitted(items)
    /\ e = Len(items) \/ (e + 1) \in Emitted(items)

\* the item at place k, its description followed by those of the items up
\* to place e, a space between them
WithFolded(items, k, e) ==
  [items[k] EXCEPT !.description =
     Join([i \in 1..(e - k + 1) |-> items[k + i - 1].description], " ")]

MaxPending == 2

Identifiers == { "+33611", "a@b.c" }

OtpCodes == { "100000", "999999" }

\* what a caller may present: a generated code or another string
OtpGuesses == OtpCodes \cup { "000000" }

\* otpStorage.get(identifier): NULL stands for undefined
OtpInit ==
  /\ otpStorage = [i \in Identifiers |-> NULL]
  /\ otpPending = << >>
  /\ otpSent = [i \in Identifiers |-> [code |-> NULL, used |-> FALSE]]
  /\ otpLast = NULL
  /\ NoiseIdle /\ ValIdle /\ AmtIdle /\ ArtIdle /\ DocIdle
  /\ RowIdle /\ MetaIdle /\ RunIdle /\ MergeIdle /\ ResetIdle

OtpUnchanged ==
  UNCHANGED <<noiseVars, valVars, amtVars, artVars, docVars, rowVars,
              metaVars, runVars, mergeVars, resetVars>>

\* const otp = this.generateOtp(); this.otpStorage.set(identifier, otp)
StoreOtp(identifier, otp) ==
  /\ otpStorage' = [otpStorage EXCEPT ![identifier] = Str(otp)]
  /\ otpSent' = [otpSent EXCEPT ![identifier] =
                   [code |-> Str(otp), used |-> FALSE]]

\* sendSmsOtp up to its await of twilioClient.messages.create
SendSmsOtp(phoneNumber) ==
  /\ Len(otpPending) < MaxPending
  /\ \E otp \in OtpCodes : StoreOtp(phoneNumber, otp)
  /\ otpPending' = Append(otpPending, [channel |-> "sms", to |-> phoneNumber])
  /\ UNCHANGED otpLast
  /\ OtpUnchanged

\* sendWhatsappOtp up to its await of twilioClient.messages.create
SendWhatsappOtp(phoneNumber) ==
  /\ Len(otpPending) < MaxPending
  /\ \E otp \in OtpCodes : StoreOtp(phoneNumber, otp)
  /\ otpPending' = Append(otpPending,
                          [channel |-> "whatsapp", to |-> phoneNumber])
  /\ UNCHANGED otpLast
  /\ OtpUnchanged

\* sendEmailOtp: the mail call is not awaited; whether it throws or not the
\* code stays stored
SendEmailOtp(email) ==
  /\ \E otp \in OtpCodes : StoreOtp(email, otp)
  /\ UNCHANGED <<otpPending, otpLast>>
  /\ OtpUnchanged

\* the pending send at place k leaves the list
WithoutPending(k) ==
  SubSeq(otpPending, 1, k - 1) \o SubSeq(otpPending, k + 1, Len(otpPending))

\* messages.create resolves: the send call logs and returns
MessageSent(k) ==
  /\ k \in 1..Len(otpPending)
  /\ otpPending' = WithoutPending(k)
  /\ UNCHANGED <<otpStorage, otpSent, otpLast>>
  /\ OtpUnchanged

\* messages.create rejects: the send call throws InternalServerError, the
\* code it stored stays
MessageFails(k) ==
  /\ k \in 1..Len(otpPending)
  /\ otpPending' = WithoutPending(k)
  /\ UNCHANGED <<otpStorage, otpSent, otpLast>>
  /\ OtpUnchanged

\* what validateOtp returns or throws
validateOtpResult(storedOtp, otp) ==
  IF storedOtp = NULL THEN "BadRequest"
  ELSE IF storedOtp # Str(otp) THEN "Unauthorized"
  ELSE "true"

\* the latest call of validateOtp, the storage before and after it
OtpCall(identifier, otp, after) ==
  [identifier |-> identifier, otp |-> Str(otp),
   result |-> validateOtpResult(otpStorage[identifier], otp),
   sent |-> otpSent[identifier],
   before |-> otpStorage, after |-> after]

\* validateOtp without this.otpStorage.delete(identifier)
ValidateOtp_KeepCode(identifier, otp) ==
  /\ otpLast' = OtpCall(identifier, otp, otpStorage)
  /\ otpSent' = IF validateOtpResult(otpStorage[identifier], otp) = "true"
                THEN [otpSent EXCEPT ![identifier].used = TRUE]
                ELSE otpSent
  /\ UNCHANGED <<otpStorage, otpPending>>
  /\ OtpUnchanged

ValidateOtp(identifier, otp) ==
  /\ otpStorage' = IF validateOtpResult(otpStorage[identifier], otp) = "true"
                   THEN [otpStorage EXCEPT ![identifier] = NULL]
                   ELSE otpStorage
  /\ otpLast' = OtpCall(identifier, otp, otpStorage')
  /\ otpSent' = IF validateOtpResult(otpStorage[identifier], otp) = "true"
                THEN [otpSent EXCEPT ![identifier].used = TRUE]
                ELSE otpSent
  /\ UNCHANGED otpPending
  /\ OtpUnchanged

OtpNext ==
  \/ \E identifier \in Identifiers :
       \/ SendSmsOtp(identifier)
       \/ SendWhatsappOtp(identifier)
       \/ SendEmailOtp(identifier)
  \/ \E k \in 1..MaxPending : MessageSent(k) \/ MessageFails(k)
  \/ \E identifier \in Identifiers, otp \in OtpGuesses :
       ValidateOtp(identifier, otp)

SpecOtp == OtpInit /\ [][OtpNext]_vars

\* C24: validateOtp succeeds only on the code the latest send stored for
\* the identifier, and only once: the success removes the code, and no code
\* is stored again until a send; a failed validateOtp changes nothing in
\* the storage.
C24_SingleUse ==
  /\ otpLast # NULL =>
       IF otpLast.result = "true"
       THEN /\ otpLast.otp = otpLast.sent.code
            /\ ~otpLast.sent.used
            /\ otpLast.before[otpLast.identifier] = otpLast.otp
            /\ otpLast.after =
                 [otpLast.before EXCEPT ![otpLast.identifier] = NULL]
       ELSE otpLast.after = otpLast.before
  /\ \A i \in DOMAIN otpSent :
       /\ otpSent[i].used => otpStorage[i] = NULL
       /\ otpStorage[i] # NULL => otpStorage[i] = otpSent[i].code

\* a code was sent and accepted, and the same code presented again for the
\* identifier was refused
C24_Witness ==
  /\ otpLast # NULL
  /\ otpLast.result = "BadRequest"
  /\ otpLast.sent.used
  /\ otpLast.otp = otpLast.sent.code
  /\ otpStorage[otpLast.identifier] = NULL

(***************************************************************************)
(* Specification of the password reset of AuthService: signup adds users,  *)
(* forgotPassword issues a reset token good for one hour, resetPassword    *)
(* takes a token and, after its await of bcrypt.hash, sets the password.   *)
(* The time is counted in hours.  nanoid(64) and uuidv4() are taken to     *)
(* return a value never returned before: the k-th token issued is k, the   *)
(* k-th user has _id k.                                                    *)
(***************************************************************************)
MaxTokens == 2

MaxClock == 2

Emails == { "a@b.c", "d@e.f" }

NewPasswords == { "secret1" }

\* expiryDate.setHours(expiryDate.getHours() + 1)
TokenLifetime == 1

\* the tokens a caller may present: issued ones, and 0, never issued
PresentedTokens == 0..MaxTokens

\* bcrypt.hash(password, 10)
BcryptHash(password) == [bcrypt |-> password, rounds |-> 10]

ResetInit ==
  /\ users = << >>
  /\ resetTokens = << >>
  /\ clock = 0
  /\ tokensIssued = << >>
  /\ hashing = << >>
  /\ resetLast = NULL
  /\ NoiseIdle /\ ValIdle /\ AmtIdle /\ ArtIdle /\ DocIdle
  /\ RowIdle /\ MetaIdle /\ RunIdle /\ MergeIdle /\ OtpIdle

ResetUnchanged ==
  UNCHANGED <<noiseVars, valVars, amtVars, artVars, docVars, rowVars,
              metaVars, runVars, mergeVars, otpVars>>

\* an hour passes
Tick ==
  /\ clock < MaxClock
  /\ clock' = clock + 1
  /\ UNCHANGED <<users, resetTokens, tokensIssued, hashing, resetLast>>
  /\ ResetUnchanged

\* this.users.find((u) => u.email === email): its place, 0 if none
UserByEmail(email) ==
  IF \E k \in 1..Len(users) : users[k].email = email
  THEN CHOOSE k \in 1..Len(users) :
         /\ users[k].email = email
         /\ \A j \in 1..(k - 1) : users[j].email # email
  ELSE 0

\* this.users.find((u) => u._id === userId): its place, 0 if none
UserById(userId) ==
  IF \E k \in 1..Len(users) : users[k].id = userId
  THEN CHOOSE k \in 1..Len(users) :
         /\ users[k].id = userId
         /\ \A j \in 1..(k - 1) : users[j].id # userId
  ELSE 0

\* signup: a new user without password, unless the email is in use
Signup(email) ==
  /\ UserByEmail(email) = 0
  /\ users' = Append(users, [id |-> Len(users) + 1, email |-> email,
                             password |-> NULL])
  /\ UNCHANGED <<resetTokens, clock, tokensIssued, hashing, resetLast>>
  /\ ResetUnchanged

\* the token forgotPassword makes for the user
NewResetToken(userId) ==
  [token |-> Len(tokensIssued) + 1, userId |-> userId,
   expiryDate |-> clock + TokenLifetime]

\* the tokens of the other users: resetTokens.filter((t) => t.userId !== user._id)
TokensOfOthers(userId) ==
  SelectSeq(resetTokens, LAMBDA t : t.userId # userId)

\* forgotPassword pushing the new token without removing the user's old ones
ForgotPassword_KeepOld(email) ==
  /\ Len(tokensIssued) < MaxTokens
  /\ IF UserByEmail(email) # 0
     THEN /\ resetTokens' =
               Append(resetTokens, NewResetToken(users[UserByEmail(email)].id))
          /\ tokensIssued' =
               Append(tokensIssued, NewResetToken(users[UserByEmail(email)].id))
     ELSE UNCHANGED <<resetTokens, tokensIssued>>
  /\ UNCHANGED <<users, clock, hashing, resetLast>>
  /\ ResetUnchanged

ForgotPassword(email) ==
  /\ Len(tokensIssued) < MaxTokens
  /\ IF UserByEmail(email) # 0
     THEN /\ resetTokens' =
               Append(TokensOfOthers(users[UserByEmail(email)].id),
                      NewResetToken(users[UserByEmail(email)].id))
          /\ tokensIssued' =
               Append(tokensIssued, NewResetToken(users[UserByEmail(email)].id))
     ELSE UNCHANGED <<resetTokens, tokensIssued>>
  /\ UNCHANGED <<users, clock, hashing, resetLast>>
  /\ ResetUnchanged

\* resetTokens.findIndex((t) => t.token === resetToken && t.expiryDate >= now),
\* 0 standing for -1
TokenIndex(resetToken) ==
  IF \E k \in 1..Len(resetTokens) :
       resetTokens[k].token = resetToken /\ resetTokens[k].expiryDate >= clock
  THEN CHOOSE k \in 1..Len(resetTokens) :
         /\ resetTokens[k].token = resetToken
         /\ resetTokens[k].expiryDate >= clock
         /\ \A j \in 1..(k - 1) :
              ~(/\ resetTokens[j].token = resetToken
                /\ resetTokens[j].expiryDate >= clock)
  ELSE 0

\* this.resetTokens.splice(index, 1)
Spliced(index) ==
  SubSeq(resetTokens, 1, index - 1)
    \o SubSeq(resetTokens, index + 1, Len(resetTokens))

\* the latest call of resetPassword: what it was given, what it found and
\* what it left
ResetCall(resetToken, result, tokensAfter, hashingAfter, usersAfter) ==
  [token |-> resetToken, result |-> result, now |-> clock,
   issued |-> tokensIssued,
   accepted |-> IF resetLast = NULL THEN {}
                ELSE IF resetLast.result = "accepted"
                THEN resetLast.accepted \cup { resetLast.token }
                ELSE resetLast.accepted,
   tokensBefore |-> resetTokens, tokensAfter |-> tokensAfter,
   hashingBefore |-> hashing, hashingAfter |-> hashingAfter,
   usersBefore |-> users, usersAfter |-> usersAfter]

\* resetPassword up to its await of bcrypt.hash: the token is looked up and
\* removed, or 'Invalid link' is thrown
ResetPassword(newPassword, resetToken) ==
  /\ UNCHANGED <<users, clock, tokensIssued>>
  /\ IF TokenIndex(resetToken) = 0
     THEN /\ resetLast' = ResetCall(resetToken, "Invalid link", resetTokens,
                                    hashing, users')
          /\ UNCHANGED <<resetTokens, hashing>>
     ELSE /\ resetTokens' = Spliced(TokenIndex(resetToken))
          /\ hashing' =
               Append(hashing,
                      [userId |-> resetTokens[TokenIndex(resetToken)].userId,
                       newPassword |-> newPassword])
          /\ resetLast' = ResetCall(resetToken, "accepted", resetTokens',
                                    hashing', users')
  /\ ResetUnchanged

\* bcrypt.hash resolves: user.password = the hash
PasswordHashed(k) ==
  /\ k \in 1..Len(hashing)
  /\ users' = [users EXCEPT ![UserById(hashing[k].userId)].password =
                              BcryptHash(hashing[k].newPassword)]
  /\ hashing' = SubSeq(hashing, 1, k - 1) \o SubSeq(hashing, k + 1, Len(hashing))
  /\ UNCHANGED <<resetTokens, clock, tokensIssued, resetLast>>
  /\ ResetUnchanged

ResetNext ==
  \/ Tick
  \/ \E email \in Emails : Signup(email) \/ ForgotPassword(email)
  \/ \E newPassword \in NewPasswords, resetToken \in PresentedTokens :
       ResetPassword(newPassword, resetToken)
  \/ \E k \in 1..MaxTokens : PasswordHashed(k)

SpecReset == ResetInit /\ [][ResetNext]_vars

\* the token was issued before the call
WasIssued(c) == c.token \in 1..Len(c.issued)

\* a later forgotPassword issued another token to the token's user
Superseded(c) ==
  \E k \in (c.token + 1)..Len(c.issued) :
    c.issued[k].userId = c.issued[c.token].userId

\* C25: resetTokens holds at most one token for a user; resetPassword
\* accepts a token only if it was issued, is the latest one issued to its
\* user, is unexpired and was not accepted before; a superseded or consumed
\* token is refused with 'Invalid link', and a refused call changes no
\* password and schedules no change.
C25_ResetTokens ==
  /\ \A j, k \in 1..Len(resetTokens) :
       resetTokens[j].userId = resetTokens[k].userId => j = k
  /\ resetLast # NULL =>
       /\ resetLast.result = "accepted" =>
            /\ WasIssued(resetLast)
            /\ ~Superseded(resetLast)
            /\ resetLast.issued[resetLast.token].expiryDate >= resetLast.now
            /\ resetLast.token \notin resetLast.accepted
       /\ (/\ WasIssued(resetLast)
           /\ Superseded(resetLast) \/ resetLast.token \in resetLast.accepted)
          => resetLast.result = "Invalid link"
       /\ resetLast.result = "Invalid link" =>
            /\ resetLast.usersAfter = resetLast.usersBefore
            /\ resetLast.hashingAfter = resetLast.hashingBefore

\* a token still within its hour and never accepted was refused, a later
\* forgotPassword having issued another one to its user
C25_Witness ==
  /\ resetLast # NULL
  /\ WasIssued(resetLast)
  /\ Superseded(resetLast)
  /\ resetLast.issued[resetLast.token].expiryDate >= resetLast.now
  /\ resetLast.token \notin resetLast.accepted
  /\ resetLast.result = "Invalid link"
  /\ \E k \in 1..Len(users) : users[k].password # NULL

====
